---- MODULE Spec2Model ----
(***************************************************************************)
(* A model of drode's backend (src-tauri): the process execution and       *)
(* streaming engine of commands/terminal.rs and the OAuth flow manager of  *)
(* commands/oauth.rs with its token store db/oauth.rs.                     *)
(*                                                                         *)
(* Threads are modelled at the granularity of their visible effects: one   *)
(* step per registry operation, per signal, per line read and emitted,     *)
(* per wait-and-emit.  SpecTerm runs the process engine, SpecOAuth the     *)
(* OAuth manager; each leaves the other's variables alone.                 *)
(***************************************************************************)
EXTENDS Integers, Sequences, FiniteSets, TLC

VARIABLES
    cwdSet,         \* settings row "current_project" exists
    terminal_pids,  \* AppState.terminal_pids: terminal id -> pid (NoPid: absent)
    procs,          \* spawned children, indexed by pid, each with its reader and waiter
                    \* threads and the "terminal-output" events these have emitted
    kills,          \* invocations of kill_terminal_process, in order of their registry lookup
    ret,            \* the OperationResult most recently returned by run_terminal_command
    lim             \* the bounds of this run: processes, lines per process, kills,
                    \* the lines and the exit codes children choose from

termVars == <<cwdSet, terminal_pids, procs, kills, ret, lim>>

VARIABLES
    env,            \* names of the environment variables that are set
    PENDING_FLOWS,  \* oauth.rs PENDING_FLOWS: the pending flows, keyed by state
    listeners,      \* one callback-server task per accepted oauth_start, in order
    port,           \* the listener bound to 127.0.0.1:17391 (NoListener: free)
    oauth_tokens,   \* table oauth_tokens: provider -> record (NoToken: no row)
    oret,           \* the OperationResult most recently returned by oauth_start
    olim            \* the bound of this run: accepted starts

oauthVars == <<env, PENDING_FLOWS, listeners, port, oauth_tokens, oret, olim>>

VARIABLES
    dangerous_mode, \* settings row "dangerous_mode": "unset", "true" or "false"
    claude,         \* children spawned by send_to_claude, in order, each with its
                    \* reader threads and the "claude-output" events these have emitted
    cret,           \* the OperationResult most recently returned by an assistant command
    clim            \* the bounds of this run: assistant invocations, lines per stream

claudeVars == <<dangerous_mode, claude, cret, clim>>

VARIABLES
    threads,        \* command and task threads at the granularity of their lock
                    \* operations, in order of creation
    locks           \* each mutex's holder: a thread, or NoThread

lockVars == <<threads, locks>>

VARIABLES
    recent_projects,    \* table recent_projects: rows of path and position
    store,              \* lib.rs AppState.store: the recent_projects list in memory
    conversations       \* table conversations: rows of id, project_path, name, is_active

dbVars == <<recent_projects, store, conversations>>

vars == <<termVars, oauthVars, claudeVars, lockVars, dbVars>>

----------------------------------------------------------------------------
(* Bounds of the model *)

\* SpecTerm: sessions and kills interleaved, short output.
MaxProcs == 2
MaxLines == 1
MaxKills == 2

\* SpecStream: one session at a time, longer output.
StreamProcs == 1
StreamLines == 3
StreamKills == 1

\* SpecOAuth: accepted oauth_start calls.
MaxStarts == 2

\* SpecAssist: one shell command and one assistant invocation side by side,
\* both streams of each.
AssistProcs == 1
AssistKills == 1
AssistSends == 1
AssistLines == 1

\* SpecArgs: assistant invocations among changes of the dangerous-mode setting.
ArgsSends == 2

----------------------------------------------------------------------------
(* Values *)

Tids == {"t1", "t2"}

NoPid == 0

SIGTERM == 15
SIGKILL == 9

\* Bytes a child may put on a line.  "a" and "b" are ASCII letters, "CR" is a
\* carriage return and "FF" is a byte that is not valid UTF-8.  The newline
\* that ends each line is implicit.
Utf8Bytes == {"a", "b", "CR"}
LineSet == { <<"a">>, <<"b", "CR">>, <<"FF">> }

ExitCodes == {0, 3}

NoStatus == [kind |-> "none", code |-> 0]
Exited(c) == [kind |-> "code", code |-> c]
Signaled == [kind |-> "signal", code |-> 0]

\* OperationResult { success, error, content }
NoRet == [success |-> FALSE, error |-> "none", content |-> 0]
OkRet(content) == [success |-> TRUE, error |-> "", content |-> content]
ErrRet(error) == [success |-> FALSE, error |-> error, content |-> 0]

----------------------------------------------------------------------------
(* Pure functions of the code *)

\* BufRead::lines on one line: Err when the bytes are not UTF-8, otherwise the
\* text without its line ending: "\n", or "\r\n" when a carriage return
\* precedes the newline.
LineIsUtf8(l) == \A i \in 1..Len(l) : l[i] \in Utf8Bytes

LinesText(l) ==
    IF Len(l) > 0 /\ l[Len(l)] = "CR" THEN SubSeq(l, 1, Len(l) - 1) ELSE l

\* Mutant: unwrap_or(0), a signalled child reported as a clean exit.
WaitCodeZero(status) == IF status.kind = "code" THEN status.code ELSE 0

\* status.ok().and_then(|s| s.code()).unwrap_or(-1)
WaitCode(status) == IF status.kind = "code" THEN status.code ELSE -1

StderrEvent(tid, text) ==
    [terminalId |-> tid, type |-> "stderr", data |-> text, code |-> 0]

StdoutEvent(tid, text) ==
    [terminalId |-> tid, type |-> "stdout", data |-> text, code |-> 0]

WaiterExitEvent(tid, code) ==
    [terminalId |-> tid, type |-> "exit", data |-> <<>>, code |-> code]

KillExitEvent(tid) ==
    [terminalId |-> tid, type |-> "exit", data |-> <<>>, code |-> -1]

----------------------------------------------------------------------------
(* Init *)

TermIdle ==
    /\ cwdSet = FALSE
    /\ terminal_pids = [t \in Tids |-> NoPid]
    /\ procs = <<>>
    /\ kills = <<>>
    /\ ret = NoRet

TermInit ==
    /\ TermIdle
    /\ lim = [procs |-> MaxProcs, lines |-> MaxLines, errLines |-> 0, kills |-> MaxKills,
              lineSet |-> {<<"a">>}, codes |-> {0}]

TermOff ==
    /\ TermIdle
    /\ lim = [procs |-> 0, lines |-> 0, errLines |-> 0, kills |-> 0,
              lineSet |-> {}, codes |-> {}]

\* One command with a line on each stream, decodable or not.
AssistTermInit ==
    /\ TermIdle
    /\ lim = [procs |-> AssistProcs, lines |-> AssistLines, errLines |-> AssistLines,
              kills |-> AssistKills,
              lineSet |-> {<<"a">>, <<"FF">>}, codes |-> {0}]

StreamInit ==
    /\ TermIdle
    /\ lim = [procs |-> StreamProcs, lines |-> StreamLines, errLines |-> 0,
              kills |-> StreamKills,
              lineSet |-> LineSet, codes |-> ExitCodes]

----------------------------------------------------------------------------
(* commands/claude.rs start_claude_cli, commands/projects.rs set_current_project *)

SetProject ==
    /\ ~cwdSet
    /\ cwdSet' = TRUE
    /\ UNCHANGED <<terminal_pids, procs, kills, ret, lim>>

----------------------------------------------------------------------------
(* commands/terminal.rs run_terminal_command *)

RunNoProject(tid) ==
    /\ ~cwdSet
    /\ ret' = ErrRet("No project path set")
    /\ UNCHANGED <<cwdSet, terminal_pids, procs, kills, lim>>

\* Mutant: the session is registered before the result of the spawn is
\* looked at.
RunSpawnFailRegisters(tid) ==
    /\ cwdSet
    /\ ret' = ErrRet("spawn error")
    /\ terminal_pids' = [terminal_pids EXCEPT ![tid] = Len(procs) + 1]
    /\ UNCHANGED <<cwdSet, procs, kills, lim>>

RunSpawnFail(tid) ==
    /\ cwdSet
    /\ ret' = ErrRet("spawn error")
    /\ UNCHANGED <<cwdSet, terminal_pids, procs, kills, lim>>

\* A spawned child: its state (st, status), the lines it has written to its
\* stdout pipe (out), the stdout reader thread (rd lines consumed, rdr its
\* position, outEv the events it emitted), the same for its stderr pipe and
\* reader (err, erd, erdr, errEv), and the waiter thread (wt, exitEv).
NewProc(tid) ==
    [tid |-> tid, st |-> "running", status |-> NoStatus,
     out |-> <<>>, rd |-> 0, rdr |-> "run", outEv |-> <<>>,
     err |-> <<>>, erd |-> 0, erdr |-> "run", errEv |-> <<>>,
     wt |-> "wait", exitEv |-> <<>>]

\* Mutant: a start under an id that is registered kills the prior occupant.
RunOkKillsPrior(tid) ==
    /\ cwdSet
    /\ Len(procs) < lim.procs
    /\ LET pid == Len(procs) + 1 IN
        /\ procs' = Append([q \in 1..Len(procs) |->
                              IF q = terminal_pids[tid] /\ procs[q].st = "running"
                              THEN [procs[q] EXCEPT !.st = "zombie", !.status = Signaled]
                              ELSE procs[q]],
                           NewProc(tid))
        /\ terminal_pids' = [terminal_pids EXCEPT ![tid] = pid]
        /\ ret' = OkRet(pid)
    /\ UNCHANGED <<cwdSet, kills, lim>>

RunOk(tid) ==
    /\ cwdSet
    /\ Len(procs) < lim.procs
    /\ LET pid == Len(procs) + 1 IN
        /\ procs' = Append(procs, NewProc(tid))
        /\ terminal_pids' = [terminal_pids EXCEPT ![tid] = pid]
        /\ ret' = OkRet(pid)
    /\ UNCHANGED <<cwdSet, kills, lim>>

----------------------------------------------------------------------------
(* The child process *)

\* The child writes one more line to its stdout pipe; a write to a pipe whose
\* read end the reader has dropped fails and adds nothing.
ChildWrite(p, l) ==
    /\ procs[p].st = "running"
    /\ procs[p].rdr # "err"
    /\ Len(procs[p].out) < lim.lines
    /\ procs' = [procs EXCEPT ![p].out = Append(@, l)]
    /\ UNCHANGED <<cwdSet, terminal_pids, kills, ret, lim>>

ChildExit(p, c) ==
    /\ procs[p].st = "running"
    /\ procs' = [procs EXCEPT ![p].st = "zombie", ![p].status = Exited(c)]
    /\ UNCHANGED <<cwdSet, terminal_pids, kills, ret, lim>>

----------------------------------------------------------------------------
(* The stdout reader thread, terminal.rs 72-90 *)

\* Mutant: an undecodable line is skipped, and the reader goes on reading.
ReaderLineSkipsBad(p) ==
    /\ procs[p].rdr = "run"
    /\ procs[p].rd < Len(procs[p].out)
    /\ LET l == procs[p].out[procs[p].rd + 1] IN
        IF LineIsUtf8(l)
        THEN procs' = [procs EXCEPT
                ![p].rd = @ + 1,
                ![p].outEv = Append(@, StdoutEvent(procs[p].tid, LinesText(l)))]
        ELSE procs' = [procs EXCEPT ![p].rd = @ + 1]
    /\ UNCHANGED <<cwdSet, terminal_pids, kills, ret, lim>>

ReaderLine(p) ==
    /\ procs[p].rdr = "run"
    /\ procs[p].rd < Len(procs[p].out)
    /\ LET l == procs[p].out[procs[p].rd + 1] IN
        IF LineIsUtf8(l)
        THEN procs' = [procs EXCEPT
                ![p].rd = @ + 1,
                ![p].outEv = Append(@, StdoutEvent(procs[p].tid, LinesText(l)))]
        ELSE procs' = [procs EXCEPT ![p].rdr = "err"]
    /\ UNCHANGED <<cwdSet, terminal_pids, kills, ret, lim>>

ReaderEof(p) ==
    /\ procs[p].rdr = "run"
    /\ procs[p].rd = Len(procs[p].out)
    /\ procs[p].st # "running"
    /\ procs' = [procs EXCEPT ![p].rdr = "eof"]
    /\ UNCHANGED <<cwdSet, terminal_pids, kills, ret, lim>>

----------------------------------------------------------------------------
(* The stderr reader thread, terminal.rs 93-111 *)

ChildWriteErr(p, l) ==
    /\ procs[p].st = "running"
    /\ procs[p].erdr # "err"
    /\ Len(procs[p].err) < lim.errLines
    /\ procs' = [procs EXCEPT ![p].err = Append(@, l)]
    /\ UNCHANGED <<cwdSet, terminal_pids, kills, ret, lim>>

ErrReaderLine(p) ==
    /\ procs[p].erdr = "run"
    /\ procs[p].erd < Len(procs[p].err)
    /\ LET l == procs[p].err[procs[p].erd + 1] IN
        IF LineIsUtf8(l)
        THEN procs' = [procs EXCEPT
                ![p].erd = @ + 1,
                ![p].errEv = Append(@, StderrEvent(procs[p].tid, LinesText(l)))]
        ELSE procs' = [procs EXCEPT ![p].erdr = "err"]
    /\ UNCHANGED <<cwdSet, terminal_pids, kills, ret, lim>>

ErrReaderEof(p) ==
    /\ procs[p].erdr = "run"
    /\ procs[p].erd = Len(procs[p].err)
    /\ procs[p].st # "running"
    /\ procs' = [procs EXCEPT ![p].erdr = "eof"]
    /\ UNCHANGED <<cwdSet, terminal_pids, kills, ret, lim>>

----------------------------------------------------------------------------
(* The waiter thread, terminal.rs 113-124 *)

Waiter(p) ==
    /\ procs[p].wt = "wait"
    /\ procs[p].st = "zombie"
    /\ procs' = [procs EXCEPT
            ![p].wt = "done",
            ![p].st = "reaped",
            ![p].exitEv = Append(@, WaiterExitEvent(procs[p].tid, WaitCode(procs[p].status)))]
    /\ UNCHANGED <<cwdSet, terminal_pids, kills, ret, lim>>

----------------------------------------------------------------------------
(* commands/terminal.rs kill_terminal_process *)

\* One invocation: the session id, the pid its lookup removed, its position,
\* the signals it has sent, what libc::kill returned for each (the code drops
\* it), the events it has emitted, what it returned.
NewKill(tid, pid, pc, res) ==
    [tid |-> tid, pid |-> pid, pc |-> pc, sent |-> <<>>, rc |-> <<>>, ev |-> <<>>, res |-> res]

\* Mutant: the synthetic exit event is emitted whether or not the lookup found
\* a pid.
KillNotFoundEmits(tid) ==
    /\ Len(kills) < lim.kills
    /\ terminal_pids[tid] = NoPid
    /\ kills' = Append(kills, [NewKill(tid, NoPid, "done", ErrRet("Process not found"))
                                EXCEPT !.ev = <<KillExitEvent(tid)>>])
    /\ UNCHANGED <<cwdSet, terminal_pids, procs, ret, lim>>

KillNotFound(tid) ==
    /\ Len(kills) < lim.kills
    /\ terminal_pids[tid] = NoPid
    /\ kills' = Append(kills, NewKill(tid, NoPid, "done", ErrRet("Process not found")))
    /\ UNCHANGED <<cwdSet, terminal_pids, procs, ret, lim>>

\* Mutant: the lookup reads the pid (get) and leaves the entry in the map.
KillFoundKeepsEntry(tid) ==
    /\ Len(kills) < lim.kills
    /\ terminal_pids[tid] # NoPid
    /\ kills' = Append(kills, NewKill(tid, terminal_pids[tid], "term", NoRet))
    /\ UNCHANGED <<cwdSet, terminal_pids, procs, ret, lim>>

KillFound(tid) ==
    /\ Len(kills) < lim.kills
    /\ terminal_pids[tid] # NoPid
    /\ kills' = Append(kills, NewKill(tid, terminal_pids[tid], "term", NoRet))
    /\ terminal_pids' = [terminal_pids EXCEPT ![tid] = NoPid]
    /\ UNCHANGED <<cwdSet, procs, ret, lim>>

\* libc::kill(target, sig) with target = -(pid): the signal reaches the
\* process group led by pid.  A running group dies of SIGKILL; of SIGTERM it
\* dies or survives (the signal is handled or ignored; a handler that exits
\* is a later ChildExit).  A group that has exited is not affected.
Deliver(target, sig, how) ==
    LET pid == -target IN
    IF pid \notin 1..Len(procs) \/ procs[pid].st # "running" THEN procs
    ELSE IF sig = SIGKILL \/ how = "die"
         THEN [procs EXCEPT ![pid].st = "zombie", ![pid].status = Signaled]
         ELSE procs

\* What libc::kill returns: 0 when the group exists, its leader running or a
\* zombie not yet waited for; -1 (ESRCH) once the leader has been reaped.
KillRc(target) ==
    LET pid == -target IN
    IF pid \in 1..Len(procs) /\ procs[pid].st # "reaped" THEN 0 ELSE -1

KillTerm(k, how) ==
    /\ kills[k].pc = "term"
    /\ LET target == -(kills[k].pid) IN
        /\ procs' = Deliver(target, SIGTERM, how)
        /\ kills' = [kills EXCEPT
                ![k].pc = "sleep",
                ![k].sent = Append(@, [target |-> target, sig |-> SIGTERM]),
                ![k].rc = Append(@, KillRc(target))]
    /\ UNCHANGED <<cwdSet, terminal_pids, ret, lim>>

\* Mutant: the forceful signal is sent only if the process is still running.
KillForceIfRunning(k) ==
    /\ kills[k].pc = "sleep"
    /\ LET target == -(kills[k].pid) IN
        IF procs[kills[k].pid].st = "running"
        THEN /\ procs' = Deliver(target, SIGKILL, "die")
             /\ kills' = [kills EXCEPT
                     ![k].pc = "emit",
                     ![k].sent = Append(@, [target |-> target, sig |-> SIGKILL]),
                     ![k].rc = Append(@, KillRc(target))]
        ELSE /\ procs' = procs
             /\ kills' = [kills EXCEPT ![k].pc = "emit"]
    /\ UNCHANGED <<cwdSet, terminal_pids, ret, lim>>

\* Mutant: the forceful signal is addressed to the pid, not to its negative.
KillForceLeaderOnly(k) ==
    /\ kills[k].pc = "sleep"
    /\ LET target == kills[k].pid IN
        /\ procs' = Deliver(-target, SIGKILL, "die")
        /\ kills' = [kills EXCEPT
                ![k].pc = "emit",
                ![k].sent = Append(@, [target |-> target, sig |-> SIGKILL]),
                ![k].rc = Append(@, KillRc(-target))]
    /\ UNCHANGED <<cwdSet, terminal_pids, ret, lim>>

KillForce(k) ==
    /\ kills[k].pc = "sleep"
    /\ LET target == -(kills[k].pid) IN
        /\ procs' = Deliver(target, SIGKILL, "die")
        /\ kills' = [kills EXCEPT
                ![k].pc = "emit",
                ![k].sent = Append(@, [target |-> target, sig |-> SIGKILL]),
                ![k].rc = Append(@, KillRc(target))]
    /\ UNCHANGED <<cwdSet, terminal_pids, ret, lim>>

\* Mutant: the kill joins the waiter before it emits its own exit event.
KillEmitAfterWaiter(k) ==
    /\ kills[k].pc = "emit"
    /\ procs[kills[k].pid].wt = "done"
    /\ kills' = [kills EXCEPT
            ![k].pc = "done",
            ![k].ev = Append(@, KillExitEvent(kills[k].tid)),
            ![k].res = OkRet(0)]
    /\ UNCHANGED <<cwdSet, terminal_pids, procs, ret, lim>>

\* Mutant: the kill returns without emitting its exit event, leaving the
\* report to the waiter.
KillEmitSilent(k) ==
    /\ kills[k].pc = "emit"
    /\ kills' = [kills EXCEPT ![k].pc = "done", ![k].res = OkRet(0)]
    /\ UNCHANGED <<cwdSet, terminal_pids, procs, ret, lim>>

KillEmit(k) ==
    /\ kills[k].pc = "emit"
    /\ kills' = [kills EXCEPT
            ![k].pc = "done",
            ![k].ev = Append(@, KillExitEvent(kills[k].tid)),
            ![k].res = OkRet(0)]
    /\ UNCHANGED <<cwdSet, terminal_pids, procs, ret, lim>>

----------------------------------------------------------------------------
(* commands/oauth.rs: values *)

Providers == {"github", "supabase", "vercel"}

\* Provider names a caller passes to oauth_start.
StartProviders == {"github", "vercel", "gitlab"}

NoConfig == [client_id_env |-> "", token_url |-> ""]

\* get_provider_config: the client-id variable and the token endpoint.
get_provider_config(provider) ==
    IF provider = "github"
    THEN [client_id_env |-> "DRODE_GITHUB_CLIENT_ID",
          token_url |-> "https://github.com/login/oauth/access_token"]
    ELSE IF provider = "supabase"
    THEN [client_id_env |-> "DRODE_SUPABASE_CLIENT_ID",
          token_url |-> "https://api.supabase.com/v1/oauth/token"]
    ELSE IF provider = "vercel"
    THEN [client_id_env |-> "DRODE_VERCEL_CLIENT_ID",
          token_url |-> "https://api.vercel.com/v2/oauth/access_token"]
    ELSE NoConfig

EnvChoices == SUBSET {"DRODE_GITHUB_CLIENT_ID", "DRODE_VERCEL_CLIENT_ID"}

NoListener == 0
NoToken == [provider |-> "", access_token |-> ""]
NoFlow == [provider |-> "", state |-> <<"none">>, code_verifier |-> <<"none">>]
NoPost == [token_url |-> "", code |-> <<"none">>, code_verifier |-> <<"none">>]
NoRequest == [state |-> <<"none">>, code |-> <<"none">>]
NoResponse == [sent |-> FALSE, status |-> 0, json |-> FALSE, access_token |-> "none"]

\* OperationResult of oauth_start; its error is the pieces of the format string.
NoORet == [success |-> FALSE, error |-> <<"none">>]
OkORet == [success |-> TRUE, error |-> <<>>]
ErrORet(error) == [success |-> FALSE, error |-> error]

\* generate_random_string(32) and generate_pkce of the n-th accepted start:
\* random values, distinct from every earlier one.
StateParam(n) == <<"state", n>>
CodeVerifier(n) == <<"verifier", n>>
CodeChallenge(verifier) == <<"S256", verifier>>

\* Mutant: code_challenge_method=plain, the challenge is the verifier itself.
AuthUrlPlain(n) == [state |-> StateParam(n), code_challenge |-> CodeVerifier(n)]

\* The authorize URL oauth_start opens in the browser.
AuthUrl(n) == [state |-> StateParam(n), code_challenge |-> CodeChallenge(CodeVerifier(n))]

\* What a request to the callback port may carry as its state parameter: no
\* such parameter, an empty one (the empty string is <<>>), a value no start
\* generated, or the state of any start made so far.
Missing == <<"missing">>
RequestStates == {Missing, <<>>, <<"forged">>} \cup { StateParam(n) : n \in 1..Len(listeners) }
RequestCodes == { <<"code">> }

\* params.get(key).cloned().unwrap_or_default()
ParamOrDefault(v) == IF v = Missing THEN <<>> ELSE v

\* What the token endpoint may answer: the request fails (sent = FALSE), or a
\* response with a status and a body that is not JSON, or JSON whose
\* access_token is absent (or is not a string), is empty, or is a token.
Absent == "absent"
Responses ==
    { [sent |-> FALSE, status |-> 0, json |-> FALSE, access_token |-> Absent] }
    \cup { [sent |-> TRUE, status |-> st, json |-> FALSE, access_token |-> Absent] :
            st \in {200, 400} }
    \cup { [sent |-> TRUE, status |-> st, json |-> TRUE, access_token |-> t] :
            st \in {200, 400}, t \in {Absent, "", "tokA"} }

\* body["access_token"].as_str().unwrap_or("")
AccessTokenOf(resp) ==
    IF resp.access_token = Absent THEN "" ELSE resp.access_token

OAuthError(provider, error) == [event |-> "oauth-error", provider |-> provider, error |-> error]
OAuthComplete(provider) == [event |-> "oauth-complete", provider |-> provider, error |-> ""]

FlowKeys == { f.state : f \in PENDING_FLOWS }
FlowOf(state) == CHOOSE f \in PENDING_FLOWS : f.state = state

----------------------------------------------------------------------------
(* Init *)

OAuthIdle ==
    /\ PENDING_FLOWS = {}
    /\ listeners = <<>>
    /\ port = NoListener
    /\ oauth_tokens = [p \in Providers |-> NoToken]
    /\ oret = NoORet

OAuthInit ==
    /\ OAuthIdle
    /\ env \in EnvChoices
    /\ olim = [starts |-> MaxStarts]

OAuthOff ==
    /\ OAuthIdle
    /\ env = {}
    /\ olim = [starts |-> 0]

----------------------------------------------------------------------------
(* commands/oauth.rs oauth_start *)

StartUnknown(provider) ==
    /\ get_provider_config(provider) = NoConfig
    /\ oret' = ErrORet(<<"Unknown provider: ", provider>>)
    /\ UNCHANGED <<env, PENDING_FLOWS, listeners, port, oauth_tokens, olim>>

\* Mutant: a missing client-id variable is read as the empty string
\* (unwrap_or_default) and the start goes on.
StartNoClientIdDefaults(provider) ==
    /\ get_provider_config(provider) # NoConfig
    /\ get_provider_config(provider).client_id_env \notin env
    /\ Len(listeners) < olim.starts
    /\ LET n == Len(listeners) + 1 IN
        /\ PENDING_FLOWS' = PENDING_FLOWS \cup
                { [provider |-> provider, state |-> StateParam(n),
                   code_verifier |-> CodeVerifier(n)] }
        /\ listeners' = Append(listeners,
                [provider |-> provider, pc |-> "bind", url |-> AuthUrl(n),
                 req |-> NoRequest, flow |-> NoFlow, post |-> NoPost,
                 resp |-> NoResponse, ev |-> <<>>])
    /\ oret' = OkORet
    /\ UNCHANGED <<env, port, oauth_tokens, olim>>

StartNoClientId(provider) ==
    /\ get_provider_config(provider) # NoConfig
    /\ get_provider_config(provider).client_id_env \notin env
    /\ oret' = ErrORet(<<"Set ", get_provider_config(provider).client_id_env,
                        " environment variable with your OAuth client ID">>)
    /\ UNCHANGED <<env, PENDING_FLOWS, listeners, port, oauth_tokens, olim>>

\* The callback-server task of the n-th accepted start: the provider it was
\* started for, its position, the URL its start opened in the browser, the
\* request it received, the flow it consumed, the POST it made to the token
\* endpoint and the answer, and the notifications it has emitted.
NewListener(provider, n) ==
    [provider |-> provider, pc |-> "bind", url |-> AuthUrl(n),
     req |-> NoRequest, flow |-> NoFlow, post |-> NoPost, resp |-> NoResponse,
     ev |-> <<>>]

StartAccepted(provider) ==
    /\ get_provider_config(provider) # NoConfig
    /\ get_provider_config(provider).client_id_env \in env
    /\ Len(listeners) < olim.starts
    /\ LET n == Len(listeners) + 1 IN
        /\ PENDING_FLOWS' = { f \in PENDING_FLOWS : f.state # StateParam(n) } \cup
                { [provider |-> provider, state |-> StateParam(n),
                   code_verifier |-> CodeVerifier(n)] }
        /\ listeners' = Append(listeners, NewListener(provider, n))
    /\ oret' = OkORet
    /\ UNCHANGED <<env, port, oauth_tokens, olim>>

----------------------------------------------------------------------------
(* commands/oauth.rs start_callback_server *)

Emit(l, n) == [listeners EXCEPT ![l].pc = "done", ![l].ev = Append(@, n)]

ListenerBindFail(l) ==
    /\ listeners[l].pc = "bind"
    /\ listeners' = Emit(l, OAuthError(listeners[l].provider, "Failed to start callback server"))
    /\ UNCHANGED <<env, PENDING_FLOWS, port, oauth_tokens, oret, olim>>

\* Mutant: the bind succeeds although another listener holds the port
\* (SO_REUSEPORT).
ListenerBindShared(l) ==
    /\ listeners[l].pc = "bind"
    /\ port' = l
    /\ listeners' = [listeners EXCEPT ![l].pc = "recv"]
    /\ UNCHANGED <<env, PENDING_FLOWS, oauth_tokens, oret, olim>>

ListenerBind(l) ==
    /\ listeners[l].pc = "bind"
    /\ port = NoListener
    /\ port' = l
    /\ listeners' = [listeners EXCEPT ![l].pc = "recv"]
    /\ UNCHANGED <<env, PENDING_FLOWS, oauth_tokens, oret, olim>>

ListenerTimeout(l) ==
    /\ listeners[l].pc = "recv"
    /\ port' = NoListener
    /\ listeners' = Emit(l, OAuthError(listeners[l].provider, "OAuth callback timed out"))
    /\ UNCHANGED <<env, PENDING_FLOWS, oauth_tokens, oret, olim>>

\* Mutant: the state is not validated; a request whose state matches no flow
\* completes a pending flow of the listener's provider.
ListenerRequestNoStateCheck(l, rstate, rcode) ==
    /\ listeners[l].pc = "recv"
    /\ port' = NoListener
    /\ LET state == ParamOrDefault(rstate)
           got == [listeners EXCEPT ![l].req = [state |-> rstate, code |-> rcode]]
           mine == { f \in PENDING_FLOWS : f.provider = listeners[l].provider }
       IN  IF state \in FlowKeys
           THEN /\ PENDING_FLOWS' = PENDING_FLOWS \ {FlowOf(state)}
                /\ listeners' = [got EXCEPT ![l].pc = "exchange", ![l].flow = FlowOf(state)]
           ELSE IF mine # {}
           THEN LET f == CHOOSE f \in mine : TRUE IN
                /\ PENDING_FLOWS' = PENDING_FLOWS \ {f}
                /\ listeners' = [got EXCEPT ![l].pc = "exchange", ![l].flow = f]
           ELSE /\ PENDING_FLOWS' = PENDING_FLOWS
                /\ listeners' = [got EXCEPT
                        ![l].pc = "done",
                        ![l].ev = Append(@, OAuthError(listeners[l].provider,
                                                       "Invalid OAuth state parameter"))]
    /\ UNCHANGED <<env, oauth_tokens, oret, olim>>

\* Mutant: the flow is looked up (get) and left in the table.
ListenerRequestKeepsFlow(l, rstate, rcode) ==
    /\ listeners[l].pc = "recv"
    /\ port' = NoListener
    /\ LET state == ParamOrDefault(rstate)
           got == [listeners EXCEPT ![l].req = [state |-> rstate, code |-> rcode]]
       IN  IF state \in FlowKeys
           THEN /\ PENDING_FLOWS' = PENDING_FLOWS
                /\ listeners' = [got EXCEPT ![l].pc = "exchange", ![l].flow = FlowOf(state)]
           ELSE /\ PENDING_FLOWS' = PENDING_FLOWS
                /\ listeners' = [got EXCEPT
                        ![l].pc = "done",
                        ![l].ev = Append(@, OAuthError(listeners[l].provider,
                                                       "Invalid OAuth state parameter"))]
    /\ UNCHANGED <<env, oauth_tokens, oret, olim>>

ListenerRequest(l, rstate, rcode) ==
    /\ listeners[l].pc = "recv"
    /\ port' = NoListener
    /\ LET state == ParamOrDefault(rstate)
           code == ParamOrDefault(rcode)
           got == [listeners EXCEPT ![l].req = [state |-> rstate, code |-> rcode]]
       IN  IF state \in FlowKeys
           THEN /\ PENDING_FLOWS' = PENDING_FLOWS \ {FlowOf(state)}
                /\ listeners' = [got EXCEPT ![l].pc = "exchange", ![l].flow = FlowOf(state)]
           ELSE /\ PENDING_FLOWS' = PENDING_FLOWS
                /\ listeners' = [got EXCEPT
                        ![l].pc = "done",
                        ![l].ev = Append(@, OAuthError(listeners[l].provider,
                                                       "Invalid OAuth state parameter"))]
    /\ UNCHANGED <<env, oauth_tokens, oret, olim>>

----------------------------------------------------------------------------
(* commands/oauth.rs exchange_code, db/oauth.rs store_token *)

\* Mutant: the access token is not checked for emptiness.
ExchangePostNoEmptyCheck(l, resp) ==
    /\ listeners[l].pc = "exchange"
    /\ LET provider == listeners[l].flow.provider
           config == get_provider_config(provider)
           posted == [listeners EXCEPT
                        ![l].post = [token_url |-> config.token_url,
                                     code |-> ParamOrDefault(listeners[l].req.code),
                                     code_verifier |-> listeners[l].flow.code_verifier],
                        ![l].resp = resp]
           fail(error) == [posted EXCEPT
                        ![l].pc = "done",
                        ![l].ev = Append(@, OAuthError(provider, error))]
       IN  IF config = NoConfig \/ config.client_id_env \notin env
           THEN listeners' = [listeners EXCEPT ![l].pc = "done"]
           ELSE IF ~resp.sent
           THEN listeners' = fail("Token exchange failed")
           ELSE IF ~resp.json
           THEN listeners' = fail("Failed to parse token response")
           ELSE listeners' = [posted EXCEPT ![l].pc = "store"]
    /\ UNCHANGED <<env, PENDING_FLOWS, port, oauth_tokens, oret, olim>>

\* Mutant: a body that cannot be parsed ends the exchange without a
\* notification.
ExchangePostSilentParseError(l, resp) ==
    /\ listeners[l].pc = "exchange"
    /\ LET provider == listeners[l].flow.provider
           config == get_provider_config(provider)
           posted == [listeners EXCEPT
                        ![l].post = [token_url |-> config.token_url,
                                     code |-> ParamOrDefault(listeners[l].req.code),
                                     code_verifier |-> listeners[l].flow.code_verifier],
                        ![l].resp = resp]
           fail(error) == [posted EXCEPT
                        ![l].pc = "done",
                        ![l].ev = Append(@, OAuthError(provider, error))]
       IN  IF config = NoConfig \/ config.client_id_env \notin env
           THEN listeners' = [listeners EXCEPT ![l].pc = "done"]
           ELSE IF ~resp.sent
           THEN listeners' = fail("Token exchange failed")
           ELSE IF ~resp.json
           THEN listeners' = [posted EXCEPT ![l].pc = "done"]
           ELSE IF AccessTokenOf(resp) = ""
           THEN listeners' = fail("No access_token in response")
           ELSE listeners' = [posted EXCEPT ![l].pc = "store"]
    /\ UNCHANGED <<env, PENDING_FLOWS, port, oauth_tokens, oret, olim>>

ExchangePost(l, resp) ==
    /\ listeners[l].pc = "exchange"
    /\ LET provider == listeners[l].flow.provider
           config == get_provider_config(provider)
           posted == [listeners EXCEPT
                        ![l].post = [token_url |-> config.token_url,
                                     code |-> ParamOrDefault(listeners[l].req.code),
                                     code_verifier |-> listeners[l].flow.code_verifier],
                        ![l].resp = resp]
           fail(error) == [posted EXCEPT
                        ![l].pc = "done",
                        ![l].ev = Append(@, OAuthError(provider, error))]
       IN  IF config = NoConfig \/ config.client_id_env \notin env
           THEN listeners' = [listeners EXCEPT ![l].pc = "done"]
           ELSE IF ~resp.sent
           THEN listeners' = fail("Token exchange failed")
           ELSE IF ~resp.json
           THEN listeners' = fail("Failed to parse token response")
           ELSE IF AccessTokenOf(resp) = ""
           THEN listeners' = fail("No access_token in response")
           ELSE listeners' = [posted EXCEPT ![l].pc = "store"]
    /\ UNCHANGED <<env, PENDING_FLOWS, port, oauth_tokens, oret, olim>>

\* INSERT OR REPLACE INTO oauth_tokens
store_token(token) == [oauth_tokens EXCEPT ![token.provider] = token]

\* Mutant: a failed INSERT ends the exchange without a notification.
ExchangeStoreSilentDbError(l, dbOk) ==
    /\ listeners[l].pc = "store"
    /\ LET provider == listeners[l].flow.provider
           token == [provider |-> provider, access_token |-> AccessTokenOf(listeners[l].resp)]
       IN  IF dbOk
           THEN /\ oauth_tokens' = store_token(token)
                /\ listeners' = Emit(l, OAuthComplete(provider))
           ELSE /\ oauth_tokens' = oauth_tokens
                /\ listeners' = [listeners EXCEPT ![l].pc = "done"]
    /\ UNCHANGED <<env, PENDING_FLOWS, port, oret, olim>>

\* Mutant: the notifications of the store step name the provider the task
\* was started for, not the provider of the flow it consumed.
ExchangeStoreOwnProvider(l, dbOk) ==
    /\ listeners[l].pc = "store"
    /\ LET provider == listeners[l].flow.provider
           token == [provider |-> provider, access_token |-> AccessTokenOf(listeners[l].resp)]
       IN  IF dbOk
           THEN /\ oauth_tokens' = store_token(token)
                /\ listeners' = Emit(l, OAuthComplete(listeners[l].provider))
           ELSE /\ oauth_tokens' = oauth_tokens
                /\ listeners' = Emit(l, OAuthError(listeners[l].provider, "Failed to store token"))
    /\ UNCHANGED <<env, PENDING_FLOWS, port, oret, olim>>

ExchangeStore(l, dbOk) ==
    /\ listeners[l].pc = "store"
    /\ LET provider == listeners[l].flow.provider
           token == [provider |-> provider, access_token |-> AccessTokenOf(listeners[l].resp)]
       IN  IF dbOk
           THEN /\ oauth_tokens' = store_token(token)
                /\ listeners' = Emit(l, OAuthComplete(provider))
           ELSE /\ oauth_tokens' = oauth_tokens
                /\ listeners' = Emit(l, OAuthError(provider, "Failed to store token"))
    /\ UNCHANGED <<env, PENDING_FLOWS, port, oret, olim>>

\* commands/oauth.rs oauth_revoke, db/oauth.rs remove_token
Revoke(provider) ==
    /\ oauth_tokens[provider] # NoToken
    /\ oauth_tokens' = [oauth_tokens EXCEPT ![provider] = NoToken]
    /\ UNCHANGED <<env, PENDING_FLOWS, listeners, port, oret, olim>>

----------------------------------------------------------------------------
(* commands/claude.rs and the send_to_claude of lib.rs: values *)

\* The two send_to_claude handlers of the crate.
Handlers == {"commands", "lib"}

\* session_id: Option<String>
NoSession == [some |-> FALSE, val |-> ""]
SessionIds == {NoSession, [some |-> TRUE, val |-> ""], [some |-> TRUE, val |-> "s1"]}

\* message: any text the caller types.
Messages == {"hi", "--dangerously-skip-permissions"}

BaseArgs == <<"--print", "--output-format", "stream-json", "--verbose">>

\* settings::get(DANGEROUS_MODE_KEY).map(|v| v == "true").unwrap_or(false)
get_dangerous_mode == dangerous_mode = "true"

ResumeArgs(session_id) ==
    IF session_id.some /\ session_id.val # ""
    THEN <<"--resume", session_id.val>> ELSE <<>>

\* commands/claude.rs: the flag is inserted at the front in dangerous mode.
ClaudeArgs(dangerous, session_id) ==
    (IF dangerous THEN <<"--dangerously-skip-permissions">> ELSE <<>>)
        \o BaseArgs \o ResumeArgs(session_id)

\* lib.rs: the flag is the first element of the vec! literal.
LibClaudeArgs(session_id) ==
    <<"--dangerously-skip-permissions">> \o BaseArgs \o ResumeArgs(session_id)

\* Command::new("claude").args(&args).arg(&message)
Argv(args, message) == args \o <<message>>

ClaudeEvent(type, data) == [type |-> type, data |-> data]

\* A child spawned by send_to_claude: the handler that spawned it, its
\* argument vector and the inputs it was built from, its state, and its two
\* pipes with their reader threads, as for a shell command.  There is no
\* waiter thread and no registration.
NewAssist(handler, dangerous, session_id, argv) ==
    [handler |-> handler, dangerous |-> dangerous, session_id |-> session_id,
     argv |-> argv, st |-> "running", status |-> NoStatus,
     out |-> <<>>, rd |-> 0, rdr |-> "run", outEv |-> <<>>,
     err |-> <<>>, erd |-> 0, erdr |-> "run", errEv |-> <<>>]

ClaudeIdle ==
    /\ dangerous_mode = "unset"
    /\ claude = <<>>
    /\ cret = NoRet

ClaudeInit ==
    /\ ClaudeIdle
    /\ clim = [sends |-> AssistSends, lines |-> AssistLines,
               lineSet |-> {<<"a">>, <<"FF">>},
               handlers |-> {"commands"}, sessions |-> {NoSession}, messages |-> {"hi"}]

\* Argument construction: every handler, session id and message, no output.
ArgsInit ==
    /\ ClaudeIdle
    /\ clim = [sends |-> ArgsSends, lines |-> 0, lineSet |-> {},
               handlers |-> Handlers, sessions |-> SessionIds, messages |-> Messages]

ClaudeOff ==
    /\ ClaudeIdle
    /\ clim = [sends |-> 0, lines |-> 0, lineSet |-> {},
               handlers |-> {}, sessions |-> {}, messages |-> {}]

----------------------------------------------------------------------------
(* commands/claude.rs: the commands *)

set_dangerous_mode(enabled, dbOk) ==
    /\ IF dbOk
       THEN /\ dangerous_mode' = IF enabled THEN "true" ELSE "false"
            /\ cret' = OkRet(0)
       ELSE /\ dangerous_mode' = dangerous_mode
            /\ cret' = ErrRet("db error")
    /\ UNCHANGED <<claude, clim>>

SendNoProject ==
    /\ ~cwdSet
    /\ cret' = ErrRet("No project path set")
    /\ UNCHANGED <<dangerous_mode, claude, clim>>

SendSpawnFail ==
    /\ cwdSet
    /\ cret' = ErrRet("spawn error")
    /\ UNCHANGED <<dangerous_mode, claude, clim>>

SendOk(handler, session_id, message) ==
    /\ cwdSet
    /\ Len(claude) < clim.sends
    /\ LET args == IF handler = "commands"
                   THEN ClaudeArgs(get_dangerous_mode, session_id)
                   ELSE LibClaudeArgs(session_id)
       IN  claude' = Append(claude,
                NewAssist(handler, get_dangerous_mode, session_id, Argv(args, message)))
    /\ cret' = OkRet(0)
    /\ UNCHANGED <<dangerous_mode, clim>>

stop_claude_cli ==
    /\ cret' = OkRet(0)
    /\ UNCHANGED <<dangerous_mode, claude, clim>>

----------------------------------------------------------------------------
(* The assistant process and its reader threads, claude.rs 113-154 *)

AssistWrite(c, l) ==
    /\ claude[c].st = "running"
    /\ claude[c].rdr # "err"
    /\ Len(claude[c].out) < clim.lines
    /\ claude' = [claude EXCEPT ![c].out = Append(@, l)]
    /\ UNCHANGED <<dangerous_mode, cret, clim>>

AssistWriteErr(c, l) ==
    /\ claude[c].st = "running"
    /\ claude[c].erdr # "err"
    /\ Len(claude[c].err) < clim.lines
    /\ claude' = [claude EXCEPT ![c].err = Append(@, l)]
    /\ UNCHANGED <<dangerous_mode, cret, clim>>

AssistExit(c, code) ==
    /\ claude[c].st = "running"
    /\ claude' = [claude EXCEPT ![c].st = "zombie", ![c].status = Exited(code)]
    /\ UNCHANGED <<dangerous_mode, cret, clim>>

\* The stdout reader: one event per line; on an undecodable line it breaks
\* out of the loop and emits "done".
AssistReaderLine(c) ==
    /\ claude[c].rdr = "run"
    /\ claude[c].rd < Len(claude[c].out)
    /\ LET l == claude[c].out[claude[c].rd + 1] IN
        IF LineIsUtf8(l)
        THEN claude' = [claude EXCEPT
                ![c].rd = @ + 1,
                ![c].outEv = Append(@, ClaudeEvent("stdout", LinesText(l)))]
        ELSE claude' = [claude EXCEPT
                ![c].rdr = "err",
                ![c].outEv = Append(@, ClaudeEvent("done", <<>>))]
    /\ UNCHANGED <<dangerous_mode, cret, clim>>

\* Mutant: the stdout reader ends as the stderr reader does, without "done".
AssistReaderEofSilent(c) ==
    /\ claude[c].rdr = "run"
    /\ claude[c].rd = Len(claude[c].out)
    /\ claude[c].st # "running"
    /\ claude' = [claude EXCEPT ![c].rdr = "eof"]
    /\ UNCHANGED <<dangerous_mode, cret, clim>>

AssistReaderEof(c) ==
    /\ claude[c].rdr = "run"
    /\ claude[c].rd = Len(claude[c].out)
    /\ claude[c].st # "running"
    /\ claude' = [claude EXCEPT
            ![c].rdr = "eof",
            ![c].outEv = Append(@, ClaudeEvent("done", <<>>))]
    /\ UNCHANGED <<dangerous_mode, cret, clim>>

AssistErrReaderLine(c) ==
    /\ claude[c].erdr = "run"
    /\ claude[c].erd < Len(claude[c].err)
    /\ LET l == claude[c].err[claude[c].erd + 1] IN
        IF LineIsUtf8(l)
        THEN claude' = [claude EXCEPT
                ![c].erd = @ + 1,
                ![c].errEv = Append(@, ClaudeEvent("stderr", LinesText(l)))]
        ELSE claude' = [claude EXCEPT ![c].erdr = "err"]
    /\ UNCHANGED <<dangerous_mode, cret, clim>>

AssistErrReaderEof(c) ==
    /\ claude[c].erdr = "run"
    /\ claude[c].erd = Len(claude[c].err)
    /\ claude[c].st # "running"
    /\ claude' = [claude EXCEPT ![c].erdr = "eof"]
    /\ UNCHANGED <<dangerous_mode, cret, clim>>

----------------------------------------------------------------------------
(* The subsystems a specification leaves out *)

NoThread == 0

LocksOff ==
    /\ threads = <<>>
    /\ locks = [L \in {"terminal_pids", "PENDING_FLOWS", "db"} |-> NoThread]

DbOff ==
    /\ recent_projects = {}
    /\ store = [recent_projects |-> <<>>]
    /\ conversations = {}

----------------------------------------------------------------------------
(* Specifications *)

NextTerm ==
    \/ SetProject /\ UNCHANGED <<oauthVars, claudeVars, lockVars, dbVars>>
    \/ \E tid \in Tids : RunNoProject(tid) /\ UNCHANGED <<oauthVars, claudeVars, lockVars, dbVars>>
    \/ \E tid \in Tids : RunSpawnFail(tid) /\ UNCHANGED <<oauthVars, claudeVars, lockVars, dbVars>>
    \/ \E tid \in Tids : RunOk(tid) /\ UNCHANGED <<oauthVars, claudeVars, lockVars, dbVars>>
    \/ \E p \in 1..Len(procs), l \in lim.lineSet : ChildWrite(p, l) /\ UNCHANGED <<oauthVars, claudeVars, lockVars, dbVars>>
    \/ \E p \in 1..Len(procs), c \in lim.codes : ChildExit(p, c) /\ UNCHANGED <<oauthVars, claudeVars, lockVars, dbVars>>
    \/ \E p \in 1..Len(procs) : ReaderLine(p) /\ UNCHANGED <<oauthVars, claudeVars, lockVars, dbVars>>
    \/ \E p \in 1..Len(procs) : ReaderEof(p) /\ UNCHANGED <<oauthVars, claudeVars, lockVars, dbVars>>
    \/ \E p \in 1..Len(procs) : Waiter(p) /\ UNCHANGED <<oauthVars, claudeVars, lockVars, dbVars>>
    \/ \E tid \in Tids : KillNotFound(tid) /\ UNCHANGED <<oauthVars, claudeVars, lockVars, dbVars>>
    \/ \E tid \in Tids : KillFound(tid) /\ UNCHANGED <<oauthVars, claudeVars, lockVars, dbVars>>
    \/ \E k \in 1..Len(kills), how \in {"die", "survive"} :
            KillTerm(k, how) /\ UNCHANGED <<oauthVars, claudeVars, lockVars, dbVars>>
    \/ \E k \in 1..Len(kills) : KillForce(k) /\ UNCHANGED <<oauthVars, claudeVars, lockVars, dbVars>>
    \/ \E k \in 1..Len(kills) : KillEmit(k) /\ UNCHANGED <<oauthVars, claudeVars, lockVars, dbVars>>

InitTerm == TermInit /\ OAuthOff /\ ClaudeOff /\ LocksOff /\ DbOff

SpecTerm == InitTerm /\ [][NextTerm]_vars

InitStream == StreamInit /\ OAuthOff /\ ClaudeOff /\ LocksOff /\ DbOff

SpecStream == InitStream /\ [][NextTerm]_vars

\* The waiter is a thread of its own, blocked in child.wait(): once the
\* child has terminated the operating system lets it run.
WaiterStep(p) ==
    IF p \in 1..Len(procs) THEN Waiter(p) /\ UNCHANGED <<oauthVars, claudeVars, lockVars, dbVars>> ELSE FALSE

WaiterFair == \A p \in 1..StreamProcs : WF_vars(WaiterStep(p))

FairStream == SpecStream /\ WaiterFair

\* kill_terminal_process runs on a command thread: two signals, a sleep of
\* 100 ms, an emit and a return, none of which blocks for ever.
KillStep(k) ==
    IF k \in 1..Len(kills)
    THEN /\ \/ \E how \in {"die", "survive"} : KillTerm(k, how)
            \/ KillForce(k)
            \/ KillEmit(k)
         /\ UNCHANGED <<oauthVars, claudeVars, lockVars, dbVars>>
    ELSE FALSE

KillFair == \A k \in 1..StreamKills : WF_vars(KillStep(k))

FairKill == SpecStream /\ WaiterFair /\ KillFair

\* The kill alone is scheduled; the waiter may be arbitrarily late.
FairKillOnly == SpecStream /\ KillFair

NextOAuth ==
    \/ \E provider \in StartProviders : StartUnknown(provider) /\ UNCHANGED <<termVars, claudeVars, lockVars, dbVars>>
    \/ \E provider \in StartProviders : StartNoClientId(provider) /\ UNCHANGED <<termVars, claudeVars, lockVars, dbVars>>
    \/ \E provider \in StartProviders : StartAccepted(provider) /\ UNCHANGED <<termVars, claudeVars, lockVars, dbVars>>
    \/ \E l \in 1..Len(listeners) : ListenerBindFail(l) /\ UNCHANGED <<termVars, claudeVars, lockVars, dbVars>>
    \/ \E l \in 1..Len(listeners) : ListenerBind(l) /\ UNCHANGED <<termVars, claudeVars, lockVars, dbVars>>
    \/ \E l \in 1..Len(listeners) : ListenerTimeout(l) /\ UNCHANGED <<termVars, claudeVars, lockVars, dbVars>>
    \/ \E l \in 1..Len(listeners), rstate \in RequestStates, rcode \in RequestCodes :
            ListenerRequest(l, rstate, rcode) /\ UNCHANGED <<termVars, claudeVars, lockVars, dbVars>>
    \/ \E l \in 1..Len(listeners), resp \in Responses :
            ExchangePost(l, resp) /\ UNCHANGED <<termVars, claudeVars, lockVars, dbVars>>
    \/ \E l \in 1..Len(listeners), dbOk \in BOOLEAN : ExchangeStore(l, dbOk) /\ UNCHANGED <<termVars, claudeVars, lockVars, dbVars>>
    \/ \E provider \in Providers : Revoke(provider) /\ UNCHANGED <<termVars, claudeVars, lockVars, dbVars>>

InitOAuth == OAuthInit /\ TermOff /\ ClaudeOff /\ LocksOff /\ DbOff

SpecOAuth == InitOAuth /\ [][NextOAuth]_vars

\* The callback server is a task of its own: the bind returns, recv_timeout
\* returns within 300 s, and the requests of the exchange and the INSERT
\* return with an answer or an error.
ListenerStep(l) ==
    IF l \in 1..Len(listeners)
    THEN /\ \/ ListenerBindFail(l)
            \/ ListenerBind(l)
            \/ ListenerTimeout(l)
            \/ \E rstate \in RequestStates, rcode \in RequestCodes :
                    ListenerRequest(l, rstate, rcode)
            \/ \E resp \in Responses : ExchangePost(l, resp)
            \/ \E dbOk \in BOOLEAN : ExchangeStore(l, dbOk)
         /\ UNCHANGED <<termVars, claudeVars, lockVars, dbVars>>
    ELSE FALSE

ListenerFair == \A l \in 1..MaxStarts : WF_vars(ListenerStep(l))

FairOAuth == SpecOAuth /\ ListenerFair

\* Shell commands and assistant invocations side by side.
NextAssist ==
    \/ NextTerm
    \/ \E p \in 1..Len(procs), l \in lim.lineSet :
            ChildWriteErr(p, l) /\ UNCHANGED <<oauthVars, claudeVars, lockVars, dbVars>>
    \/ \E p \in 1..Len(procs) : ErrReaderLine(p) /\ UNCHANGED <<oauthVars, claudeVars, lockVars, dbVars>>
    \/ \E p \in 1..Len(procs) : ErrReaderEof(p) /\ UNCHANGED <<oauthVars, claudeVars, lockVars, dbVars>>
    \/ SendNoProject /\ UNCHANGED <<termVars, oauthVars, lockVars, dbVars>>
    \/ SendSpawnFail /\ UNCHANGED <<termVars, oauthVars, lockVars, dbVars>>
    \/ \E handler \in clim.handlers, session_id \in clim.sessions, message \in clim.messages :
            SendOk(handler, session_id, message) /\ UNCHANGED <<termVars, oauthVars, lockVars, dbVars>>
    \/ stop_claude_cli /\ UNCHANGED <<termVars, oauthVars, lockVars, dbVars>>
    \/ \E c \in 1..Len(claude), l \in clim.lineSet :
            AssistWrite(c, l) /\ UNCHANGED <<termVars, oauthVars, lockVars, dbVars>>
    \/ \E c \in 1..Len(claude), l \in clim.lineSet :
            AssistWriteErr(c, l) /\ UNCHANGED <<termVars, oauthVars, lockVars, dbVars>>
    \/ \E c \in 1..Len(claude) : AssistExit(c, 0) /\ UNCHANGED <<termVars, oauthVars, lockVars, dbVars>>
    \/ \E c \in 1..Len(claude) : AssistReaderLine(c) /\ UNCHANGED <<termVars, oauthVars, lockVars, dbVars>>
    \/ \E c \in 1..Len(claude) : AssistReaderEof(c) /\ UNCHANGED <<termVars, oauthVars, lockVars, dbVars>>
    \/ \E c \in 1..Len(claude) : AssistErrReaderLine(c) /\ UNCHANGED <<termVars, oauthVars, lockVars, dbVars>>
    \/ \E c \in 1..Len(claude) : AssistErrReaderEof(c) /\ UNCHANGED <<termVars, oauthVars, lockVars, dbVars>>

InitAssist == AssistTermInit /\ OAuthOff /\ ClaudeInit /\ LocksOff /\ DbOff

SpecAssist == InitAssist /\ [][NextAssist]_vars

\* The assistant commands alone.
NextArgs ==
    \/ SetProject /\ UNCHANGED <<oauthVars, claudeVars, lockVars, dbVars>>
    \/ \E enabled \in BOOLEAN, dbOk \in BOOLEAN :
            set_dangerous_mode(enabled, dbOk) /\ UNCHANGED <<termVars, oauthVars, lockVars, dbVars>>
    \/ SendNoProject /\ UNCHANGED <<termVars, oauthVars, lockVars, dbVars>>
    \/ SendSpawnFail /\ UNCHANGED <<termVars, oauthVars, lockVars, dbVars>>
    \/ \E handler \in clim.handlers, session_id \in clim.sessions, message \in clim.messages :
            SendOk(handler, session_id, message) /\ UNCHANGED <<termVars, oauthVars, lockVars, dbVars>>
    \/ stop_claude_cli /\ UNCHANGED <<termVars, oauthVars, lockVars, dbVars>>
    \/ \E c \in 1..Len(claude) : AssistExit(c, 0) /\ UNCHANGED <<termVars, oauthVars, lockVars, dbVars>>

InitArgs == TermOff /\ OAuthOff /\ ArgsInit /\ LocksOff /\ DbOff

SpecArgs == InitArgs /\ [][NextArgs]_vars

----------------------------------------------------------------------------
(* Claims about the process engine *)

Pids == 1..Len(procs)

\* The lines of p's output that precede its first undecodable line.
RECURSIVE GoodPrefixLen(_)
GoodPrefixLen(out) ==
    IF out = <<>> \/ ~LineIsUtf8(Head(out)) THEN 0 ELSE 1 + GoodPrefixLen(Tail(out))

ReaderStopped(p) == procs[p].rdr # "run" /\ procs[p].st # "running"

\* C1 as stated: once the child has exited and its stdout reader has stopped,
\* the stdout events of the process carry exactly the lines the child wrote,
\* one event per line, with the line's exact bytes, in the order written.
C1_EveryLineOneEvent ==
    \A p \in Pids :
        ReaderStopped(p) =>
            /\ Len(procs[p].outEv) = Len(procs[p].out)
            /\ \A i \in 1..Len(procs[p].out) :
                /\ procs[p].outEv[i].type = "stdout"
                /\ procs[p].outEv[i].terminalId = procs[p].tid
                /\ procs[p].outEv[i].data = procs[p].out[i]

\* C1 amended: the stdout events of a process are, in order, one event per
\* line for the lines that precede the child's first line that is not valid
\* UTF-8, each with the caller's terminal id and the line's text without its
\* line ending (a newline, with the carriage return before it if there is
\* one); at most these while the reader runs, exactly these once it has
\* stopped.  From the first undecodable line on, no line yields an event.
C1_LinesBeforeFirstUndecodable ==
    \A p \in Pids :
        LET good == GoodPrefixLen(procs[p].out)
            n == Len(procs[p].outEv)
        IN  /\ n <= good
            /\ \A i \in 1..n :
                /\ procs[p].outEv[i].type = "stdout"
                /\ procs[p].outEv[i].terminalId = procs[p].tid
                /\ LET l == procs[p].out[i] IN
                    procs[p].outEv[i].data =
                        IF Len(l) > 0 /\ l[Len(l)] = "CR"
                        THEN SubSeq(l, 1, Len(l) - 1) ELSE l
            /\ ReaderStopped(p) => n = good
            /\ procs[p].rdr = "eof" => n = Len(procs[p].out)

\* C1 witness: a child wrote a line, then an undecodable line, then another
\* line; its reader emitted the first and stopped.
C1_Witness ==
    \E p \in Pids :
        /\ ReaderStopped(p)
        /\ Len(procs[p].out) = 3
        /\ LineIsUtf8(procs[p].out[1]) /\ ~LineIsUtf8(procs[p].out[2])
        /\ LineIsUtf8(procs[p].out[3])
        /\ Len(procs[p].outEv) = 1

KillsFound == { k \in 1..Len(kills) : kills[k].pid # NoPid }

\* C2: a kill that found its session id in the registry has removed that
\* registration (the id no longer maps to the pid it found), and when it
\* returns it returns success, has sent SIGTERM and then SIGKILL to the
\* process group of that pid, and the process is no longer running, whether
\* it was killed or had already exited by itself.
C2_KillTerminates ==
    \A k \in KillsFound :
        /\ terminal_pids[kills[k].tid] # kills[k].pid
        /\ kills[k].pc = "done" =>
            /\ kills[k].res.success /\ kills[k].res.error = ""
            /\ Len(kills[k].sent) = 2
            /\ kills[k].sent[1] = [target |-> -(kills[k].pid), sig |-> SIGTERM]
            /\ kills[k].sent[2] = [target |-> -(kills[k].pid), sig |-> SIGKILL]
            /\ procs[kills[k].pid].st # "running"

\* C2 witness: a kill has returned for a session whose process had exited by
\* itself (it has an exit code, so no signal ended it) and had been reaped.
C2_Witness ==
    \E k \in KillsFound :
        /\ kills[k].pc = "done"
        /\ procs[kills[k].pid].status.kind = "code"
        /\ procs[kills[k].pid].st = "reaped"

\* C3: a kill for a session id that is not in the registry returns
\* "Process not found" and changes nothing else: the registry, every process
\* with its threads and events, and the earlier kills stay as they were; it
\* sends no signal and emits no event.
C3_KillUnknownNoEffect ==
    [][ \A tid \in Tids :
          ( /\ terminal_pids[tid] = NoPid
            /\ Len(kills') = Len(kills) + 1
            /\ kills'[Len(kills')].tid = tid )
          => /\ kills'[Len(kills')].res = [success |-> FALSE, error |-> "Process not found", content |-> 0]
             /\ kills'[Len(kills')].pc = "done"
             /\ kills'[Len(kills')].sent = <<>>
             /\ kills'[Len(kills')].ev = <<>>
             /\ SubSeq(kills', 1, Len(kills)) = kills
             /\ UNCHANGED <<terminal_pids, procs, cwdSet>> ]_vars

\* C3 witness: a kill has returned not-found while another session is
\* registered and its process is running.
C3_Witness ==
    \E k \in 1..Len(kills) :
        /\ kills[k].res.error = "Process not found"
        /\ \E t \in Tids :
            /\ t # kills[k].tid
            /\ terminal_pids[t] # NoPid
            /\ procs[terminal_pids[t]].st = "running"

WaiterExitOnce ==
    \A p \in Pids :
        /\ procs[p].wt = "wait" => procs[p].exitEv = <<>>
        /\ procs[p].wt = "done" =>
            /\ procs[p].st = "reaped"
            /\ Len(procs[p].exitEv) = 1
            /\ procs[p].exitEv[1].type = "exit"
            /\ procs[p].exitEv[1].terminalId = procs[p].tid
            /\ procs[p].status.kind = "code" => procs[p].exitEv[1].code = procs[p].status.code
            /\ procs[p].status.kind = "signal" => procs[p].exitEv[1].code = -1

Terminated(p) == IF p \in Pids THEN procs[p].st # "running" ELSE FALSE

WaiterEmitted(p) == IF p \in Pids THEN procs[p].exitEv # <<>> ELSE FALSE

\* C10: the waiter of a process has emitted no event while the process has
\* not terminated, and exactly one event once it has observed the
\* termination: an exit event with the session's terminal id, carrying the
\* exit code of the process, or -1 when a signal ended it; and once a
\* process has terminated, by itself or by a kill's signal, its waiter
\* eventually emits that event.
C10_WaiterOneExit ==
    /\ []WaiterExitOnce
    /\ \A p \in 1..StreamProcs : Terminated(p) ~> WaiterEmitted(p)

\* C10 witness: a process ended by a kill's signal, and its waiter's exit
\* event carries -1.
C10_Witness ==
    \E p \in Pids :
        /\ procs[p].status.kind = "signal"
        /\ procs[p].exitEv # <<>>
        /\ procs[p].exitEv[1].code = -1
        /\ \E k \in KillsFound : kills[k].pid = p

\* C11 as stated: once the waiter of a process has observed its termination,
\* the registry no longer maps the session id of that process to its pid.
C11_NaturalExitUnregisters ==
    \A p \in Pids :
        procs[p].wt = "done" => terminal_pids[procs[p].tid] # p

\* What the code keeps of C11: only a kill, or a later start under the same
\* id, ends a registration; a process that exited by itself stays registered.
C11_OnlyKillOrRestartUnregisters ==
    [][ \A t \in Tids :
          (terminal_pids[t] # NoPid /\ terminal_pids'[t] # terminal_pids[t]) =>
              \/ /\ terminal_pids'[t] = NoPid
                 /\ Len(kills') = Len(kills) + 1
                 /\ kills'[Len(kills')].tid = t
              \/ /\ Len(procs') = Len(procs) + 1
                 /\ terminal_pids'[t] = Len(procs') ]_vars

\* C12: a kill that found a pid signals the process group of that pid, a
\* process started under the session id it was asked to kill: nothing before
\* its SIGTERM, only SIGTERM during the grace period, and after that SIGTERM
\* followed by SIGKILL, both to the same group, whatever the state of the
\* process.
C12_TermThenKill ==
    \A k \in KillsFound :
        LET target == -(kills[k].pid)
            term == [target |-> target, sig |-> SIGTERM]
            force == [target |-> target, sig |-> SIGKILL]
        IN  /\ kills[k].pid \in Pids
            /\ procs[kills[k].pid].tid = kills[k].tid
            /\ kills[k].pc = "term" => kills[k].sent = <<>>
            /\ kills[k].pc = "sleep" => kills[k].sent = <<term>>
            /\ kills[k].pc \in {"emit", "done"} => kills[k].sent = <<term, force>>

\* C12 witness: a kill has just sent SIGKILL, after SIGTERM, to the group of
\* a process that had exited by itself with an exit code.
C12_Witness ==
    \E k \in KillsFound :
        /\ kills[k].pc = "emit"
        /\ Len(kills[k].sent) = 2
        /\ kills[k].sent[2].sig = SIGKILL
        /\ procs[kills[k].pid].status.kind = "code"

KillExitOnce ==
    \A k \in KillsFound :
        /\ kills[k].pc # "done" => kills[k].ev = <<>>
        /\ kills[k].pc = "done" =>
            /\ Len(kills[k].ev) = 1
            /\ kills[k].ev[1].type = "exit"
            /\ kills[k].ev[1].code = -1
            /\ kills[k].ev[1].terminalId = kills[k].tid
        /\ procs[kills[k].pid].tid = kills[k].tid
        /\ Len(procs[kills[k].pid].exitEv) <= 1
        /\ \A j \in KillsFound : kills[j].pid = kills[k].pid => j = k

KillIssued(k) == k \in KillsFound

TwoExitEvents(k) ==
    IF k \in KillsFound
    THEN /\ kills[k].pc = "done"
         /\ Len(kills[k].ev) + Len(procs[kills[k].pid].exitEv) = 2
    ELSE FALSE

\* C13: a kill that found its session has emitted nothing before it returns
\* and, when it returns, exactly one event: an exit event with code -1 for
\* that session; no other kill finds the same process, and the waiter of the
\* process emits at most one exit event for the same session; eventually the
\* kill has returned and the killed process has exactly two exit events, the
\* kill's and the waiter's.
C13_KilledSessionTwoExits ==
    /\ []KillExitOnce
    /\ \A k \in 1..StreamKills : KillIssued(k) ~> TwoExitEvents(k)

\* C13 witness: a kill has returned with its synthetic exit event while the
\* waiter of the killed process, ended by the kill's signal, has emitted its
\* own exit event with code -1.
C13_Witness ==
    \E k \in KillsFound :
        /\ kills[k].ev = <<KillExitEvent(kills[k].tid)>>
        /\ procs[kills[k].pid].status.kind = "signal"
        /\ Len(procs[kills[k].pid].exitEv) = 1
        /\ procs[kills[k].pid].exitEv[1].terminalId = kills[k].tid

Rejections == {"No project path set", "spawn error"}

\* C14: a run_terminal_command or send_to_claude that returns a rejection
\* returns "No project path set" exactly when no project is set, and a spawn
\* error otherwise, and its step leaves the registry, the processes of both
\* engines with their threads and events, and the kills as they were; a step
\* that adds a process returns success.
C14_RejectedStartNoPartialState ==
    [][ /\ (ret' # ret /\ ~ret'.success) =>
                /\ ret'.error \in Rejections
                /\ ret'.error = "No project path set" <=> ~cwdSet
                /\ UNCHANGED <<cwdSet, terminal_pids, procs, kills, claude>>
        /\ (cret' # cret /\ ~cret'.success) =>
                /\ cret'.error \in Rejections
                /\ cret'.error = "No project path set" <=> ~cwdSet
                /\ UNCHANGED <<cwdSet, terminal_pids, procs, kills, claude>>
        /\ Len(procs') > Len(procs) => ret'.success
        /\ Len(claude') > Len(claude) => cret'.success ]_vars

\* C14 witness: an assistant invocation was rejected for want of a project,
\* and later a shell command because its spawn failed; no process exists.
C14_Witness ==
    /\ cret = ErrRet("No project path set")
    /\ ret = ErrRet("spawn error")
    /\ procs = <<>> /\ claude = <<>>
    /\ \A t \in Tids : terminal_pids[t] = NoPid

----------------------------------------------------------------------------
(* Claims about the assistant invoker *)

Cids == 1..Len(claude)

HasFlag(argv) == \E i \in 1..Len(argv) : argv[i] = "--dangerously-skip-permissions"

HasResume(argv, id) ==
    \E i \in 1..(Len(argv) - 1) : argv[i] = "--resume" /\ argv[i + 1] = id

\* C18 as stated: the argument vector of every assistant process contains
\* --dangerously-skip-permissions exactly if the dangerous_mode setting was
\* "true" when it was started, and --resume followed by the session id
\* exactly if a non-empty session id was supplied.
C18_FlagIffDangerousMode ==
    \A c \in Cids :
        /\ HasFlag(claude[c].argv) <=> claude[c].dangerous
        /\ HasResume(claude[c].argv, claude[c].session_id.val)
              <=> (claude[c].session_id.some /\ claude[c].session_id.val # "")

\* What the code keeps of C18: the options that commands/claude.rs puts
\* before the message are as the claim says, and --resume is as the claim
\* says with either handler.
C18_CommandsHandlerOptions ==
    \A c \in Cids :
        LET options == SubSeq(claude[c].argv, 1, Len(claude[c].argv) - 1) IN
        /\ claude[c].handler = "commands" => (HasFlag(options) <=> claude[c].dangerous)
        /\ HasResume(options, claude[c].session_id.val)
              <=> (claude[c].session_id.some /\ claude[c].session_id.val # "")

\* C19 as stated: a step that starts an assistant process records it in the
\* process registry under some identifier, and an assistant process that has
\* terminated and whose output has been read to the end has had its
\* termination reported by an exit event.
C19_AssistantLikeShell ==
    /\ [][ Len(claude') > Len(claude) =>
              \E t \in Tids : terminal_pids'[t] # terminal_pids[t] ]_vars
    /\ [] \A c \in Cids :
            (claude[c].st # "running" /\ claude[c].rdr # "run" /\ claude[c].erdr # "run") =>
                \E i \in 1..Len(claude[c].outEv) : claude[c].outEv[i].type = "exit"

\* What the code does instead: starting an assistant process leaves the
\* registry as it is, nothing but the process itself ends it (it ends with
\* an exit code of its own, never by a signal of a kill), stop_claude_cli
\* changes nothing, and no event of an assistant process is an exit event.
C19_AssistantUnmanaged ==
    /\ [][ /\ claude' # claude => UNCHANGED <<terminal_pids, kills>>
           /\ \A c \in Cids :
                (claude[c].st = "running" /\ claude'[c].st # "running") =>
                    claude'[c].status.kind = "code" ]_vars
    /\ [] \A c \in Cids :
            /\ \A i \in 1..Len(claude[c].outEv) : claude[c].outEv[i].type \in {"stdout", "done"}
            /\ \A i \in 1..Len(claude[c].errEv) : claude[c].errEv[i].type = "stderr"
            /\ \A k \in KillsFound : kills[k].pid \in Pids

DoneCount(ev) == Cardinality({ i \in 1..Len(ev) : ev[i].type = "done" })

\* C20 as stated: the stdout reader of every process, of a shell command or
\* of the assistant, once it has stopped, has emitted exactly one "done"
\* event, as its last event; the events of a stderr reader are stderr lines
\* only.
C20_EveryStdoutReaderEmitsDone ==
    /\ \A p \in Pids :
        /\ procs[p].rdr # "run" =>
            /\ DoneCount(procs[p].outEv) = 1
            /\ procs[p].outEv[Len(procs[p].outEv)].type = "done"
        /\ \A i \in 1..Len(procs[p].errEv) : procs[p].errEv[i].type = "stderr"
    /\ \A c \in Cids :
        /\ claude[c].rdr # "run" =>
            /\ DoneCount(claude[c].outEv) = 1
            /\ claude[c].outEv[Len(claude[c].outEv)].type = "done"
        /\ \A i \in 1..Len(claude[c].errEv) : claude[c].errEv[i].type = "stderr"

\* C20 amended: the stdout reader of an assistant process emits only stdout
\* line events while it runs and, when it stops at end-of-input or on a read
\* error, one "done" event with empty data after them; the stdout reader of a
\* shell command emits one stdout event per line read and nothing when it
\* stops; the stderr reader of either emits one stderr event per line read
\* and nothing when it stops.
C20_DoneOnlyFromAssistant ==
    /\ \A c \in Cids :
        LET ev == claude[c].outEv IN
        /\ claude[c].rdr = "run" =>
            /\ Len(ev) = claude[c].rd
            /\ \A i \in 1..Len(ev) : ev[i].type = "stdout"
        /\ claude[c].rdr # "run" =>
            /\ Len(ev) = claude[c].rd + 1
            /\ ev[Len(ev)] = [type |-> "done", data |-> <<>>]
            /\ \A i \in 1..(Len(ev) - 1) : ev[i].type = "stdout"
        /\ Len(claude[c].errEv) = claude[c].erd
        /\ \A i \in 1..Len(claude[c].errEv) : claude[c].errEv[i].type = "stderr"
    /\ \A p \in Pids :
        /\ Len(procs[p].outEv) = procs[p].rd
        /\ \A i \in 1..Len(procs[p].outEv) : procs[p].outEv[i].type = "stdout"
        /\ Len(procs[p].errEv) = procs[p].erd
        /\ \A i \in 1..Len(procs[p].errEv) : procs[p].errEv[i].type = "stderr"

\* C20 witness: an assistant's stdout reader reached end-of-input after one
\* line and emitted "done" after it, and its stderr reader stopped on a read
\* error with no event; a shell command's stdout reader reached end-of-input
\* after one line with that line's event alone.
C20_Witness ==
    /\ \E c \in Cids :
        /\ claude[c].rdr = "eof"
        /\ Len(claude[c].outEv) = 2
        /\ claude[c].outEv[1].type = "stdout" /\ claude[c].outEv[2].type = "done"
        /\ claude[c].erdr = "err" /\ claude[c].errEv = <<>>
    /\ \E p \in Pids :
        /\ procs[p].rdr = "eof"
        /\ Len(procs[p].outEv) = 1
        /\ procs[p].outEv[1].type = "stdout"

----------------------------------------------------------------------------
(* Claims about the OAuth flow manager *)

Lids == 1..Len(listeners)

Received(l) == listeners[l].req # NoRequest
Consumed(l) == listeners[l].flow # NoFlow
Posted(l) == listeners[l].post # NoPost

InvalidStateError(l) ==
    [event |-> "oauth-error", provider |-> listeners[l].provider,
     error |-> "Invalid OAuth state parameter"]

\* C4: when a listener receives a request whose state parameter (missing and
\* empty ones included) is the key of no pending flow, the pending-flow table
\* stays as it is and the listener ends with the single notification
\* oauth-error "Invalid OAuth state parameter"; such a listener never makes a
\* token-exchange request.
C4_UnmatchedStateNoExchange ==
    /\ [][ \A l \in Lids :
            ( /\ listeners[l].pc = "recv"
              /\ listeners'[l].req # NoRequest
              /\ listeners'[l].req.state \notin { f.state : f \in PENDING_FLOWS } )
            => /\ PENDING_FLOWS' = PENDING_FLOWS
               /\ listeners'[l].flow = NoFlow
               /\ listeners'[l].post = NoPost
               /\ listeners'[l].ev = <<InvalidStateError(l)>> ]_vars
    /\ [] \A l \in Lids :
            (Received(l) /\ ~Consumed(l)) =>
                /\ listeners[l].pc = "done"
                /\ ~Posted(l)
                /\ listeners[l].ev = <<InvalidStateError(l)>>

\* C4 witness: while a flow is pending, a listener got a request without a
\* state parameter and reported the invalid state.
C4_Witness ==
    \E l \in Lids :
        /\ listeners[l].req.state = Missing
        /\ listeners[l].ev = <<InvalidStateError(l)>>
        /\ PENDING_FLOWS # {}

\* C5: no two listeners consume the flow of the same state token, a
\* token-exchange request is made only by a listener that consumed a flow,
\* and so at most one exchange request is made per state token.
C5_StateConsumedOnce ==
    /\ \A l, m \in Lids :
        (l # m /\ Consumed(l) /\ Consumed(m)) => listeners[l].flow.state # listeners[m].flow.state
    /\ \A l \in Lids : Posted(l) => Consumed(l)
    /\ \A n \in Lids :
        Cardinality({ l \in Lids : Posted(l) /\ listeners[l].flow.state = StateParam(n) }) <= 1

\* C5 witness: two redirects carried the same state; the first led to an
\* exchange request, the second was reported as an invalid state.
C5_Witness ==
    \E l, m \in Lids :
        /\ l # m
        /\ listeners[l].req.state = listeners[m].req.state
        /\ Posted(l)
        /\ listeners[m].ev = <<InvalidStateError(m)>>

TimedOut(l) ==
    /\ listeners[l].ev # <<>>
    /\ listeners[l].ev[1].error = "OAuth callback timed out"

\* C6 as stated: when the listener of a flow has timed out, that listener has
\* emitted exactly one notification, the timeout failure for its provider,
\* and no token-exchange request is ever made for that flow (the flow its
\* start recorded, with state StateParam(l)).
C6_TimedOutFlowNeverExchanged ==
    \A l \in Lids :
        TimedOut(l) =>
            /\ listeners[l].ev = << [event |-> "oauth-error", provider |-> listeners[l].provider,
                                     error |-> "OAuth callback timed out"] >>
            /\ ~Posted(l)
            /\ \A m \in Lids : listeners[m].flow.state = StateParam(l) => ~Posted(m)

\* The part of C6 that the code keeps: the listener that timed out emitted
\* that one notification, consumed no flow and made no exchange request.
C6_TimedOutListenerLocal ==
    \A l \in Lids :
        TimedOut(l) =>
            /\ listeners[l].ev = << [event |-> "oauth-error", provider |-> listeners[l].provider,
                                     error |-> "OAuth callback timed out"] >>
            /\ listeners[l].pc = "done"
            /\ ~Received(l) /\ ~Consumed(l) /\ ~Posted(l)

\* C15 as stated: the flow of a listener that has timed out, while it is in
\* the pending-flow table, stays there: no later step takes it out, so no
\* redirect carrying its state is matched with it.
C15_TimedOutFlowNeverMatched ==
    [][ \A l \in Lids :
          (TimedOut(l) /\ StateParam(l) \in FlowKeys) =>
              StateParam(l) \in { f.state : f \in PENDING_FLOWS' } ]_vars

\* What the code keeps of C15: the timeout itself leaves the table as it is.
C15_TimeoutKeepsTable ==
    [][ \A l \in Lids :
          (listeners[l].pc = "recv" /\ listeners'[l].pc = "done"
             /\ listeners'[l].req = NoRequest) => PENDING_FLOWS' = PENDING_FLOWS ]_vars

Notifications == {"oauth-complete", "oauth-error"}

AtMostOneNotification ==
    \A l \in Lids :
        /\ Len(listeners[l].ev) <= 1
        /\ \A i \in 1..Len(listeners[l].ev) : listeners[l].ev[i].event \in Notifications
        /\ listeners[l].pc = "done" => Len(listeners[l].ev) = 1

Accepted(l) == l \in Lids

Notified(l) == IF l \in Lids THEN Len(listeners[l].ev) = 1 ELSE FALSE

Bound == { l \in Lids : listeners[l].pc = "recv" }

BindFailure(l) ==
    [event |-> "oauth-error", provider |-> listeners[l].provider,
     error |-> "Failed to start callback server"]

\* C17: at most one listener is bound to the callback port at any time, and
\* it is the one the port records; a listener that comes to its bind while
\* the port is bound ends with the single notification oauth-error
\* "Failed to start callback server" naming its own provider, and its step
\* leaves the port, the listener bound to it, the pending flows and the
\* token store as they were.
C17_BusyPortFailsFlowOnly ==
    /\ [] ( /\ Cardinality(Bound) <= 1
            /\ \A l \in Lids : l \in Bound <=> port = l )
    /\ [][ \A l \in Lids :
            (listeners[l].pc = "bind" /\ port # NoListener /\ listeners'[l] # listeners[l])
            => /\ listeners'[l] = [listeners[l] EXCEPT !.pc = "done", !.ev = <<BindFailure(l)>>]
               /\ port' = port
               /\ listeners'[port] = listeners[port]
               /\ listeners'[port].pc = "recv"
               /\ UNCHANGED <<PENDING_FLOWS, oauth_tokens>> ]_vars

\* C17 witness: a second flow's listener failed to bind while the first
\* flow's listener is still bound and waiting.
C17_Witness ==
    \E l, m \in Lids :
        /\ l < m
        /\ port = l /\ listeners[l].pc = "recv"
        /\ listeners[m].ev = <<BindFailure(m)>>

HasToken(resp) ==
    resp.sent /\ resp.json /\ resp.access_token \notin {Absent, ""}

LastEvent(l) == listeners[l].ev[Len(listeners[l].ev)]

\* C7: a step that puts a record into oauth_tokens for a provider is the
\* store step of an exchange for that provider whose response carried a
\* non-empty access token, and the record holds that token; a step in which
\* a listener emits oauth-error leaves oauth_tokens as it was.
C7_StoreOnlyAfterToken ==
    [][ /\ \A p \in Providers :
            (oauth_tokens'[p] # oauth_tokens[p] /\ oauth_tokens'[p] # NoToken) =>
                \E l \in Lids :
                    /\ listeners[l].pc = "store" /\ listeners'[l].pc = "done"
                    /\ listeners[l].flow.provider = p
                    /\ HasToken(listeners[l].resp)
                    /\ oauth_tokens'[p] =
                          [provider |-> p, access_token |-> listeners[l].resp.access_token]
        /\ \A l \in Lids :
            ( /\ Len(listeners'[l].ev) > Len(listeners[l].ev)
              /\ listeners'[l].ev[Len(listeners'[l].ev)].event = "oauth-error" )
            => oauth_tokens' = oauth_tokens ]_vars

\* C7 witness: a provider's token is stored, and a later exchange for the
\* same provider has failed; the record is still the stored one.
C7_Witness ==
    \E l, m \in Lids :
        /\ l < m
        /\ listeners[l].ev # <<>> /\ LastEvent(l).event = "oauth-complete"
        /\ Posted(m) /\ listeners[m].pc = "done" /\ LastEvent(m).event = "oauth-error"
        /\ listeners[m].flow.provider = listeners[l].flow.provider
        /\ oauth_tokens[listeners[l].flow.provider].access_token = "tokA"

FailedResponse(resp) == ~HasToken(resp)

\* C8: an exchange whose request failed, whose response body is not JSON, or
\* whose response has no non-empty access_token string has ended with exactly
\* one notification, an oauth-error naming the provider of the flow, and the
\* step that made the request left oauth_tokens as it was.
C8_FailedExchangeOneError ==
    /\ [] \A l \in Lids :
            (Posted(l) /\ FailedResponse(listeners[l].resp)) =>
                /\ listeners[l].pc = "done"
                /\ Len(listeners[l].ev) = 1
                /\ listeners[l].ev[1].event = "oauth-error"
                /\ listeners[l].ev[1].provider = listeners[l].flow.provider
    /\ [][ \A l \in Lids :
            (listeners[l].pc = "exchange" /\ listeners'[l].pc = "done")
                => oauth_tokens' = oauth_tokens ]_vars

\* C8 witness: the token endpoint answered 200 with an empty access_token;
\* the listener reported the failure and the provider has no token record.
C8_Witness ==
    \E l \in Lids :
        /\ listeners[l].resp.sent /\ listeners[l].resp.status = 200
        /\ listeners[l].resp.json /\ listeners[l].resp.access_token = ""
        /\ listeners[l].ev = << [event |-> "oauth-error", provider |-> listeners[l].flow.provider,
                                 error |-> "No access_token in response"] >>
        /\ oauth_tokens[listeners[l].flow.provider] = NoToken

ClientIdVar(provider) ==
    IF provider = "github" THEN "DRODE_GITHUB_CLIENT_ID"
    ELSE IF provider = "supabase" THEN "DRODE_SUPABASE_CLIENT_ID"
    ELSE "DRODE_VERCEL_CLIENT_ID"

Configured(provider) == provider \in Providers /\ ClientIdVar(provider) \in env

\* C9: every pending flow and every listener (with the browser window its
\* start opened) belongs to a supported provider whose client-id variable is
\* set; a start that returns a rejection names an unsupported provider or a
\* client-id variable that is not set, and leaves the pending flows, the
\* listeners, the port and the token store as they were; a start that adds a
\* flow or a listener returns success.
C9_RejectedStartNoEffect ==
    /\ [] ( /\ \A l \in Lids : Configured(listeners[l].provider)
            /\ \A f \in PENDING_FLOWS : Configured(f.provider) )
    /\ [][ /\ (oret' # oret /\ ~oret'.success) =>
                /\ UNCHANGED <<PENDING_FLOWS, listeners, port, oauth_tokens>>
                /\ \/ /\ Len(oret'.error) = 2
                      /\ oret'.error[1] = "Unknown provider: "
                      /\ oret'.error[2] \notin Providers
                   \/ /\ Len(oret'.error) = 3
                      /\ oret'.error[1] = "Set "
                      /\ oret'.error[2] \in { ClientIdVar(p) : p \in Providers } \ env
           /\ (Len(listeners') > Len(listeners) \/ PENDING_FLOWS' # PENDING_FLOWS) =>
                \/ oret'.success /\ Len(listeners') = Len(listeners) + 1
                \/ Len(listeners') = Len(listeners) /\ PENDING_FLOWS' \subseteq PENDING_FLOWS
         ]_vars

\* C9 witness: with a flow of another provider pending, a start for github
\* was rejected naming DRODE_GITHUB_CLIENT_ID.
C9_Witness ==
    /\ ~oret.success
    /\ Len(oret.error) = 3
    /\ oret.error[2] = "DRODE_GITHUB_CLIENT_ID"
    /\ Len(listeners) = 1
    /\ PENDING_FLOWS # {}

Non200(resp) == resp.sent /\ resp.status # 200

\* C21 as stated: an exchange whose token endpoint answered with a status
\* other than 200 has ended with exactly one notification, an oauth-error
\* naming the provider of the flow, whatever the body of the answer held, and
\* never goes on to store a token record.
C21_Non200IsFailure ==
    \A l \in Lids :
        (Posted(l) /\ Non200(listeners[l].resp)) =>
            /\ listeners[l].pc = "done"
            /\ Len(listeners[l].ev) = 1
            /\ listeners[l].ev[1].event = "oauth-error"
            /\ listeners[l].ev[1].provider = listeners[l].flow.provider

\* What the code keeps of C21: the status is not looked at; an answer other
\* than 200 is a failure exactly when its body yields no access token.
C21_Non200JudgedByBody ==
    \A l \in Lids :
        (Posted(l) /\ Non200(listeners[l].resp)) =>
            IF HasToken(listeners[l].resp)
            THEN \/ listeners[l].pc = "store"
                 \/ listeners[l].pc = "done" /\ Len(listeners[l].ev) = 1
            ELSE /\ listeners[l].pc = "done"
                 /\ Len(listeners[l].ev) = 1
                 /\ listeners[l].ev[1].event = "oauth-error"

\* The start call that generated the state of the flow listener l consumed.
StartOf(l) == CHOOSE n \in Lids : listeners[l].flow.state = StateParam(n)

\* C22: the authorize URL of every start carries the state and the S256
\* challenge of that start's verifier and nowhere the verifier itself; a
\* verifier appears only in a token-exchange POST; and the POST made after a
\* redirect with state s goes to the token endpoint of the provider, and
\* carries the verifier, that the start which generated s recorded, whichever
\* listener received the redirect.
C22_VerifierOnlyInExchange ==
    \A l \in Lids :
        /\ listeners[l].url.state = StateParam(l)
        /\ listeners[l].url.code_challenge = CodeChallenge(CodeVerifier(l))
        /\ \A n \in Lids :
            /\ listeners[l].url.state # CodeVerifier(n)
            /\ listeners[l].url.code_challenge # CodeVerifier(n)
        /\ ~Posted(l) => listeners[l].post.code_verifier = <<"none">>
        /\ Consumed(l) =>
            /\ \E n \in Lids : listeners[l].flow.state = StateParam(n)
            /\ listeners[l].req.state = listeners[l].flow.state
            /\ listeners[l].flow.provider = listeners[StartOf(l)].provider
            /\ listeners[l].flow.code_verifier = CodeVerifier(StartOf(l))
        /\ Posted(l) =>
            /\ Consumed(l)
            /\ listeners[l].post.code_verifier = CodeVerifier(StartOf(l))
            /\ listeners[l].post.token_url =
                  get_provider_config(listeners[StartOf(l)].provider).token_url

\* C22 witness: the redirect of one start's flow was received by the listener
\* of a later start for another provider, and the POST carries the verifier
\* and goes to the endpoint of the start that generated the state.
C22_Witness ==
    \E l, m \in Lids :
        /\ l < m
        /\ listeners[l].provider # listeners[m].provider
        /\ Posted(m)
        /\ listeners[m].req.state = StateParam(l)
        /\ listeners[m].post.code_verifier = CodeVerifier(l)
        /\ listeners[m].post.token_url = get_provider_config(listeners[l].provider).token_url

\* C25 as stated: the flow a listener consumed is the one its own start
\* recorded, for the provider the listener was started for, and every
\* notification of a listener names that provider.
C25_ListenerConsumesOwnFlow ==
    \A l \in Lids :
        /\ Consumed(l) =>
            /\ listeners[l].flow.state = StateParam(l)
            /\ listeners[l].flow.provider = listeners[l].provider
        /\ \A i \in 1..Len(listeners[l].ev) : listeners[l].ev[i].provider = listeners[l].provider

\* C25 amended: the flow a listener consumed is the one recorded under the
\* state its request carried, by whichever start generated that state; the
\* notifications of a listener that consumed a flow name the provider of
\* that flow, the notifications of a listener that consumed none name the
\* provider it was started for; only a listener that consumed a flow emits
\* oauth-complete.
C25_FlowMatchedByState ==
    \A l \in Lids :
        /\ Consumed(l) =>
            /\ listeners[l].flow.state = ParamOrDefault(listeners[l].req.state)
            /\ \E n \in Lids :
                listeners[l].flow = [provider |-> listeners[n].provider,
                                     state |-> StateParam(n),
                                     code_verifier |-> CodeVerifier(n)]
        /\ \A i \in 1..Len(listeners[l].ev) :
            listeners[l].ev[i].provider =
                IF Consumed(l) THEN listeners[l].flow.provider ELSE listeners[l].provider
        /\ (listeners[l].ev # <<>> /\ LastEvent(l).event = "oauth-complete") => Consumed(l)

\* C25 witness: with no timeout and no failure, each of two listeners has
\* completed the flow that the other one's start recorded, for another
\* provider than its own, and named that provider in oauth-complete.
C25_Witness ==
    \E l, m \in Lids :
        /\ l < m
        /\ listeners[l].provider # listeners[m].provider
        /\ listeners[l].flow.state = StateParam(m)
        /\ listeners[m].flow.state = StateParam(l)
        /\ listeners[l].ev = <<OAuthComplete(listeners[m].provider)>>
        /\ listeners[m].ev = <<OAuthComplete(listeners[l].provider)>>

----------------------------------------------------------------------------
(* The lock scopes of commands/terminal.rs and commands/oauth.rs.           *)
(* Each command or task is a thread that goes through the statements of     *)
(* its handler: one step to take a mutex, one step for the map operation    *)
(* that ends with the guard being dropped, one step per blocking call.      *)

\* SpecLocks: threads, an oauth_start counting for two (the command and its
\* callback task).
LockThreads == 4

RegLock == "terminal_pids"
FlowLock == "PENDING_FLOWS"
DbLock == "db"
Locks == {RegLock, FlowLock, DbLock}

LockProviders == {"github"}
LockTids == {"t1"}

Thids == 1..Len(threads)

NewThread(kind, arg, pc) ==
    [kind |-> kind, arg |-> arg, pc |-> pc, pid |-> NoPid,
     req |-> <<"none">>, flow |-> NoFlow]

\* The threads there are, and the callback tasks still to be spawned.
Reserved ==
    Len(threads) + Cardinality({ i \in Thids : threads[i].kind = "start"
                                    /\ threads[i].pc \in {"flows_lock", "flows_insert", "spawn_task"} })

At(i, kind, pc) == threads[i].kind = kind /\ threads[i].pc = pc

\* Mutex::lock: blocks while another thread holds the mutex.
Acquire(i, L, pc) ==
    /\ locks[L] = NoThread
    /\ locks' = [locks EXCEPT ![L] = i]
    /\ threads' = [threads EXCEPT ![i].pc = pc]

lockFrame == <<procs, kills, ret, lim, env, listeners, oret, olim, claudeVars, dbVars>>

CallRun(tid) ==
    /\ Reserved < LockThreads
    /\ threads' = Append(threads, NewThread("run", tid, "db_lock"))
    /\ UNCHANGED <<locks, cwdSet, terminal_pids, PENDING_FLOWS, port, oauth_tokens, lockFrame>>

CallKill(tid) ==
    /\ Reserved < LockThreads
    /\ threads' = Append(threads, NewThread("kill", tid, "reg_lock"))
    /\ UNCHANGED <<locks, cwdSet, terminal_pids, PENDING_FLOWS, port, oauth_tokens, lockFrame>>

\* An oauth_start past its two precondition checks, which take no lock.
CallStart(provider) ==
    /\ Reserved + 2 <= LockThreads
    /\ get_provider_config(provider) # NoConfig
    /\ get_provider_config(provider).client_id_env \in env
    /\ threads' = Append(threads, NewThread("start", provider, "flows_lock"))
    /\ UNCHANGED <<locks, cwdSet, terminal_pids, PENDING_FLOWS, port, oauth_tokens, lockFrame>>

LockSetProject ==
    /\ SetProject
    /\ UNCHANGED <<threads, locks, PENDING_FLOWS, port, oauth_tokens, env, listeners, oret, olim,
                   claudeVars, dbVars>>

\* run_terminal_command, terminal.rs 13-16: the db mutex around settings::get.
RunDbLock(i) ==
    /\ At(i, "run", "db_lock")
    /\ Acquire(i, DbLock, "db_get")
    /\ UNCHANGED <<cwdSet, terminal_pids, PENDING_FLOWS, port, oauth_tokens, lockFrame>>

RunDbGet(i) ==
    /\ At(i, "run", "db_get")
    /\ locks' = [locks EXCEPT ![DbLock] = NoThread]
    /\ threads' = [threads EXCEPT ![i].pc = IF cwdSet THEN "spawn" ELSE "done"]
    /\ UNCHANGED <<cwdSet, terminal_pids, PENDING_FLOWS, port, oauth_tokens, lockFrame>>

\* terminal.rs 26-47: cmd.spawn()
RunSpawn(i, ok) ==
    /\ At(i, "run", "spawn")
    /\ threads' = [threads EXCEPT ![i].pc = IF ok THEN "reg_lock" ELSE "done",
                                  ![i].pid = IF ok THEN i ELSE NoPid]
    /\ UNCHANGED <<locks, cwdSet, terminal_pids, PENDING_FLOWS, port, oauth_tokens, lockFrame>>

\* terminal.rs 67-69: the registry mutex around pids.insert
RunRegLock(i) ==
    /\ At(i, "run", "reg_lock")
    /\ Acquire(i, RegLock, "reg_insert")
    /\ UNCHANGED <<cwdSet, terminal_pids, PENDING_FLOWS, port, oauth_tokens, lockFrame>>

RunRegInsert(i) ==
    /\ At(i, "run", "reg_insert")
    /\ terminal_pids' = [terminal_pids EXCEPT ![threads[i].arg] = threads[i].pid]
    /\ locks' = [locks EXCEPT ![RegLock] = NoThread]
    /\ threads' = [threads EXCEPT ![i].pc = "done"]
    /\ UNCHANGED <<cwdSet, PENDING_FLOWS, port, oauth_tokens, lockFrame>>

\* kill_terminal_process, terminal.rs 146-150: the registry mutex around
\* pids.remove
KillRegLock(i) ==
    /\ At(i, "kill", "reg_lock")
    /\ Acquire(i, RegLock, "reg_remove")
    /\ UNCHANGED <<cwdSet, terminal_pids, PENDING_FLOWS, port, oauth_tokens, lockFrame>>

\* Mutant: the guard is bound for the whole function and dropped at return.
KillRegRemoveKeepsGuard(i) ==
    /\ At(i, "kill", "reg_remove")
    /\ terminal_pids' = [terminal_pids EXCEPT ![threads[i].arg] = NoPid]
    /\ threads' = [threads EXCEPT
            ![i].pid = terminal_pids[threads[i].arg],
            ![i].pc = IF terminal_pids[threads[i].arg] # NoPid THEN "term" ELSE "done"]
    /\ locks' = IF terminal_pids[threads[i].arg] # NoPid
                THEN locks ELSE [locks EXCEPT ![RegLock] = NoThread]
    /\ UNCHANGED <<cwdSet, PENDING_FLOWS, port, oauth_tokens, lockFrame>>

KillRegRemove(i) ==
    /\ At(i, "kill", "reg_remove")
    /\ terminal_pids' = [terminal_pids EXCEPT ![threads[i].arg] = NoPid]
    /\ locks' = [locks EXCEPT ![RegLock] = NoThread]
    /\ threads' = [threads EXCEPT
            ![i].pid = terminal_pids[threads[i].arg],
            ![i].pc = IF terminal_pids[threads[i].arg] # NoPid THEN "term" ELSE "done"]
    /\ UNCHANGED <<cwdSet, PENDING_FLOWS, port, oauth_tokens, lockFrame>>

\* terminal.rs 158-183: SIGTERM, the sleep, SIGKILL, the emit, the return.
KillPcAfter(pc) ==
    IF pc = "term" THEN "sleep"
    ELSE IF pc = "sleep" THEN "force"
    ELSE IF pc = "force" THEN "emit"
    ELSE "done"

KillIo(i) ==
    /\ threads[i].kind = "kill"
    /\ threads[i].pc \in {"term", "sleep", "force", "emit"}
    /\ threads' = [threads EXCEPT ![i].pc = KillPcAfter(@)]
    /\ locks' = [L \in Locks |-> IF locks[L] = i /\ KillPcAfter(threads[i].pc) = "done"
                                 THEN NoThread ELSE locks[L]]
    /\ UNCHANGED <<cwdSet, terminal_pids, PENDING_FLOWS, port, oauth_tokens, lockFrame>>

\* oauth_start, oauth.rs 133-140: the pending-flow mutex around flows.insert
StartFlowsLock(i) ==
    /\ At(i, "start", "flows_lock")
    /\ Acquire(i, FlowLock, "flows_insert")
    /\ UNCHANGED <<cwdSet, terminal_pids, PENDING_FLOWS, port, oauth_tokens, lockFrame>>

StartFlowsInsert(i) ==
    /\ At(i, "start", "flows_insert")
    /\ PENDING_FLOWS' = { f \in PENDING_FLOWS : f.state # StateParam(i) } \cup
            { [provider |-> threads[i].arg, state |-> StateParam(i),
               code_verifier |-> CodeVerifier(i)] }
    /\ locks' = [locks EXCEPT ![FlowLock] = NoThread]
    /\ threads' = [threads EXCEPT ![i].pc = "spawn_task"]
    /\ UNCHANGED <<cwdSet, terminal_pids, port, oauth_tokens, lockFrame>>

\* oauth.rs 155-159: tokio::spawn of start_callback_server
StartSpawnTask(i) ==
    /\ At(i, "start", "spawn_task")
    /\ threads' = Append([threads EXCEPT ![i].pc = "open"],
                         NewThread("listener", threads[i].arg, "bind"))
    /\ UNCHANGED <<locks, cwdSet, terminal_pids, PENDING_FLOWS, port, oauth_tokens, lockFrame>>

\* oauth.rs 162-168: open::that and the return
StartOpen(i) ==
    /\ At(i, "start", "open")
    /\ threads' = [threads EXCEPT ![i].pc = "done"]
    /\ UNCHANGED <<locks, cwdSet, terminal_pids, PENDING_FLOWS, port, oauth_tokens, lockFrame>>

\* start_callback_server, oauth.rs 174-179: the bind
LsnBind(i) ==
    /\ At(i, "listener", "bind")
    /\ IF port = NoListener
       THEN /\ port' = i
            /\ threads' = [threads EXCEPT ![i].pc = "recv"]
       ELSE /\ port' = port
            /\ threads' = [threads EXCEPT ![i].pc = "emit"]
    /\ UNCHANGED <<locks, cwdSet, terminal_pids, PENDING_FLOWS, oauth_tokens, lockFrame>>

\* oauth.rs 184, 219-221: recv_timeout returns without a request
LsnTimeout(i) ==
    /\ At(i, "listener", "recv")
    /\ port' = NoListener
    /\ threads' = [threads EXCEPT ![i].pc = "emit"]
    /\ UNCHANGED <<locks, cwdSet, terminal_pids, PENDING_FLOWS, oauth_tokens, lockFrame>>

\* oauth.rs 184-206: a request arrives and is answered
LsnRequest(i, state) ==
    /\ At(i, "listener", "recv")
    /\ port' = NoListener
    /\ threads' = [threads EXCEPT ![i].pc = "flows_lock", ![i].req = state]
    /\ UNCHANGED <<locks, cwdSet, terminal_pids, PENDING_FLOWS, oauth_tokens, lockFrame>>

\* oauth.rs 209-212: the pending-flow mutex around flows.remove
LsnFlowsLock(i) ==
    /\ At(i, "listener", "flows_lock")
    /\ Acquire(i, FlowLock, "flows_remove")
    /\ UNCHANGED <<cwdSet, terminal_pids, PENDING_FLOWS, port, oauth_tokens, lockFrame>>

LsnFlowsRemove(i) ==
    /\ At(i, "listener", "flows_remove")
    /\ locks' = [locks EXCEPT ![FlowLock] = NoThread]
    /\ IF threads[i].req \in FlowKeys
       THEN /\ PENDING_FLOWS' = PENDING_FLOWS \ {FlowOf(threads[i].req)}
            /\ threads' = [threads EXCEPT ![i].pc = "post", ![i].flow = FlowOf(threads[i].req)]
       ELSE /\ PENDING_FLOWS' = PENDING_FLOWS
            /\ threads' = [threads EXCEPT ![i].pc = "emit"]
    /\ UNCHANGED <<cwdSet, terminal_pids, port, oauth_tokens, lockFrame>>

\* exchange_code, oauth.rs 265-290: the POST and the reading of its answer
LsnPost(i, ok) ==
    /\ At(i, "listener", "post")
    /\ threads' = [threads EXCEPT ![i].pc = IF ok THEN "account" ELSE "emit"]
    /\ UNCHANGED <<locks, cwdSet, terminal_pids, PENDING_FLOWS, port, oauth_tokens, lockFrame>>

\* oauth.rs 299: fetch_account_info, a GET
LsnAccount(i) ==
    /\ At(i, "listener", "account")
    /\ threads' = [threads EXCEPT ![i].pc = "db_lock"]
    /\ UNCHANGED <<locks, cwdSet, terminal_pids, PENDING_FLOWS, port, oauth_tokens, lockFrame>>

\* oauth.rs 312-324: the db mutex from store_token to the return
LsnDbLock(i) ==
    /\ At(i, "listener", "db_lock")
    /\ Acquire(i, DbLock, "store")
    /\ UNCHANGED <<cwdSet, terminal_pids, PENDING_FLOWS, port, oauth_tokens, lockFrame>>

LsnStore(i, dbOk) ==
    /\ At(i, "listener", "store")
    /\ oauth_tokens' =
          IF dbOk
          THEN store_token([provider |-> threads[i].flow.provider, access_token |-> "tokA"])
          ELSE oauth_tokens
    /\ threads' = [threads EXCEPT ![i].pc = "emit"]
    /\ UNCHANGED <<locks, cwdSet, terminal_pids, PENDING_FLOWS, port, lockFrame>>

\* The emit of the one notification and the end of the task; the db guard,
\* if held, is dropped here.
LsnEmit(i) ==
    /\ At(i, "listener", "emit")
    /\ threads' = [threads EXCEPT ![i].pc = "done"]
    /\ locks' = [L \in Locks |-> IF locks[L] = i THEN NoThread ELSE locks[L]]
    /\ UNCHANGED <<cwdSet, terminal_pids, PENDING_FLOWS, port, oauth_tokens, lockFrame>>

LockRequestStates ==
    {<<"forged">>} \cup { StateParam(n) : n \in { i \in Thids : threads[i].kind = "start" } }

ThreadStep(i) ==
    IF i \in Thids
    THEN \/ RunDbLock(i) \/ RunDbGet(i) \/ (\E ok \in BOOLEAN : RunSpawn(i, ok))
         \/ RunRegLock(i) \/ RunRegInsert(i)
         \/ KillRegLock(i) \/ KillRegRemove(i) \/ KillIo(i)
         \/ StartFlowsLock(i) \/ StartFlowsInsert(i) \/ StartSpawnTask(i) \/ StartOpen(i)
         \/ LsnBind(i) \/ LsnTimeout(i)
         \/ (\E state \in LockRequestStates : LsnRequest(i, state))
         \/ LsnFlowsLock(i) \/ LsnFlowsRemove(i)
         \/ (\E ok \in BOOLEAN : LsnPost(i, ok)) \/ LsnAccount(i)
         \/ LsnDbLock(i) \/ (\E dbOk \in BOOLEAN : LsnStore(i, dbOk)) \/ LsnEmit(i)
    ELSE FALSE

NextLocks ==
    \/ LockSetProject
    \/ \E tid \in LockTids : CallRun(tid)
    \/ \E tid \in LockTids : CallKill(tid)
    \/ \E provider \in LockProviders : CallStart(provider)
    \/ \E i \in Thids : RunDbLock(i)
    \/ \E i \in Thids : RunDbGet(i)
    \/ \E i \in Thids, ok \in BOOLEAN : RunSpawn(i, ok)
    \/ \E i \in Thids : RunRegLock(i)
    \/ \E i \in Thids : RunRegInsert(i)
    \/ \E i \in Thids : KillRegLock(i)
    \/ \E i \in Thids : KillRegRemove(i)
    \/ \E i \in Thids : KillIo(i)
    \/ \E i \in Thids : StartFlowsLock(i)
    \/ \E i \in Thids : StartFlowsInsert(i)
    \/ \E i \in Thids : StartSpawnTask(i)
    \/ \E i \in Thids : StartOpen(i)
    \/ \E i \in Thids : LsnBind(i)
    \/ \E i \in Thids : LsnTimeout(i)
    \/ \E i \in Thids, state \in LockRequestStates : LsnRequest(i, state)
    \/ \E i \in Thids : LsnFlowsLock(i)
    \/ \E i \in Thids : LsnFlowsRemove(i)
    \/ \E i \in Thids, ok \in BOOLEAN : LsnPost(i, ok)
    \/ \E i \in Thids : LsnAccount(i)
    \/ \E i \in Thids : LsnDbLock(i)
    \/ \E i \in Thids, dbOk \in BOOLEAN : LsnStore(i, dbOk)
    \/ \E i \in Thids : LsnEmit(i)

LocksInit ==
    /\ threads = <<>>
    /\ locks = [L \in Locks |-> NoThread]

InitLocks ==
    /\ LocksInit
    /\ TermIdle
    /\ lim = [procs |-> 0, lines |-> 0, errLines |-> 0, kills |-> 0, lineSet |-> {}, codes |-> {}]
    /\ OAuthIdle
    /\ env = {"DRODE_GITHUB_CLIENT_ID"}
    /\ olim = [starts |-> 0]
    /\ ClaudeOff
    /\ DbOff

SpecLocks == InitLocks /\ [][NextLocks]_vars

\* Every thread is scheduled: a command runs on a thread of the runtime's
\* pool, a callback task on a blocking thread; lock(), the signals, the 100 ms
\* sleep, recv_timeout and the HTTP calls all return.
ThreadFair == \A i \in 1..LockThreads : WF_vars(ThreadStep(i))

FairLocks == SpecLocks /\ ThreadFair

----------------------------------------------------------------------------
(* Claims about the locks *)

Held(i) == { L \in Locks : locks[L] = i }

\* Where a thread is about to spawn a process or a task, send a signal,
\* sleep, bind, wait in accept, or make an HTTP call.
IoPcs == {"spawn", "term", "sleep", "force", "spawn_task", "open",
          "bind", "recv", "post", "account"}

\* The mutex a thread is about to take.
Wanted(i) ==
    IF threads[i].pc = "reg_lock" THEN {RegLock}
    ELSE IF threads[i].pc = "flows_lock" THEN {FlowLock}
    ELSE IF threads[i].pc = "db_lock" THEN {DbLock}
    ELSE {}

Blocked(i) == \E L \in Wanted(i) : locks[L] # NoThread

Running == { i \in Thids : threads[i].pc # "done" }

MapLockScopes ==
    /\ \A L \in Locks : locks[L] = NoThread \/ locks[L] \in Running
    /\ \A i \in Thids :
        /\ RegLock \in Held(i) =>
            /\ threads[i].pc \in {"reg_insert", "reg_remove"}
            /\ Held(i) = {RegLock}
        /\ FlowLock \in Held(i) =>
            /\ threads[i].pc \in {"flows_insert", "flows_remove"}
            /\ Held(i) = {FlowLock}
        /\ threads[i].pc \in IoPcs => Held(i) = {}
        /\ Wanted(i) # {} => Held(i) = {}
    /\ Running # {} => \E i \in Running : ~Blocked(i)

OneMapOperation ==
    /\ terminal_pids' # terminal_pids => locks[RegLock] # NoThread /\ locks'[RegLock] = NoThread
    /\ PENDING_FLOWS' # PENDING_FLOWS => locks[FlowLock] # NoThread /\ locks'[FlowLock] = NoThread
    /\ \A i \in Thids, L \in {RegLock, FlowLock} :
        (locks[L] = i /\ threads'[i] # threads[i]) => locks'[L] = NoThread

ThreadStarted(i) == i \in Thids

ThreadDone(i) == IF i \in Thids THEN threads[i].pc = "done" ELSE FALSE

\* C23: a thread holds the registry mutex only at its one insert or remove,
\* and the pending-flow mutex only at its one insert or remove; it holds no
\* other mutex then, holds no mutex where it spawns, signals, sleeps, binds,
\* waits in accept or makes an HTTP call, and holds none where it takes one;
\* the step after taking either mutex is the map operation, which drops it;
\* some unfinished thread can always take a step, and every thread of start,
\* kill, listener and exchange comes to its end.
C23_LocksOnlyAroundMapOps ==
    /\ []MapLockScopes
    /\ [][OneMapOperation]_vars
    /\ \A i \in 1..LockThreads : ThreadStarted(i) ~> ThreadDone(i)

\* C23 witness: a kill sleeps through its grace period while another thread
\* holds the registry mutex for its map operation and a third waits for
\* that mutex.
C23_Witness ==
    \E i, k, l \in Thids :
        /\ At(i, "kill", "sleep")
        /\ locks[RegLock] = k /\ k # i
        /\ threads[l].pc = "reg_lock" /\ Blocked(l)

----------------------------------------------------------------------------
(* Claims about re-used session ids and about the signals of kill *)

EventCount(p) == Len(procs[p].outEv) + Len(procs[p].errEv) + Len(procs[p].exitEv)

\* A later process has been started under the session id of p.
Reused(p) == \E q \in Pids : q > p /\ procs[q].tid = procs[p].tid

\* C24 as stated: once the session id of a process has been re-used by a
\* later start, no step emits an event caused by that process: none of its
\* readers, its waiter or the kill that found it.
C24_NoEventAfterReuse ==
    [][ /\ \A p \in Pids :
            (Len(procs'[p].outEv) + Len(procs'[p].errEv) + Len(procs'[p].exitEv)
                > EventCount(p)) => ~Reused(p)
        /\ \A k \in KillsFound :
            kills'[k].ev # kills[k].ev => ~Reused(kills[k].pid) ]_vars

LatestUnder(t) == CHOOSE q \in Pids : procs[q].tid = t /\ \A r \in Pids : procs[r].tid = t => r <= q

EventsCarryStartId ==
    /\ \A p \in Pids :
        /\ \A i \in 1..Len(procs[p].outEv) : procs[p].outEv[i].terminalId = procs[p].tid
        /\ \A i \in 1..Len(procs[p].errEv) : procs[p].errEv[i].terminalId = procs[p].tid
        /\ \A i \in 1..Len(procs[p].exitEv) : procs[p].exitEv[i].terminalId = procs[p].tid
    /\ \A k \in KillsFound :
        \A i \in 1..Len(kills[k].ev) : kills[k].ev[i].terminalId = procs[kills[k].pid].tid
    /\ \A t \in Tids :
        terminal_pids[t] # NoPid =>
            /\ terminal_pids[t] \in Pids
            /\ terminal_pids[t] = LatestUnder(t)

StartReplacesOnly ==
    Len(procs') > Len(procs) =>
        /\ SubSeq(procs', 1, Len(procs)) = procs
        /\ kills' = kills
        /\ terminal_pids'[procs'[Len(procs')].tid] = Len(procs')
        /\ \A t \in Tids : t # procs'[Len(procs')].tid => terminal_pids'[t] = terminal_pids[t]

\* C24 amended: every event carries the session id under which the process
\* that caused it was started, whether or not that process is still the one
\* registered under the id; the registry maps an id to at most one pid, the
\* process most recently started under it; a start under a registered id
\* replaces the mapping and leaves the earlier process, its threads and the
\* kills as they were, so the earlier process goes on emitting under the id.
C24_EventsCarryStartId ==
    /\ []EventsCarryStartId
    /\ [][StartReplacesOnly]_vars

\* C24 witness: a session id is registered to a later process while the
\* earlier process started under it still runs, and both have emitted an
\* stdout event under that id.
C24_Witness ==
    \E p, q \in Pids :
        /\ p < q
        /\ procs[p].tid = procs[q].tid
        /\ terminal_pids[procs[p].tid] = q
        /\ procs[p].st = "running"
        /\ procs[p].outEv # <<>> /\ procs[q].outEv # <<>>
        /\ procs[p].outEv[1].terminalId = procs[q].outEv[1].terminalId

SignalsOwnGroup ==
    \A k \in 1..Len(kills) :
        Len(kills'[k].sent) > Len(kills[k].sent) =>
            LET pid == kills[k].pid
                s == kills'[k].sent[Len(kills'[k].sent)]
                rc == kills'[k].rc[Len(kills'[k].rc)]
            IN  /\ pid \in Pids
                /\ procs[pid].tid = kills[k].tid
                /\ terminal_pids[kills[k].tid] # pid
                /\ s.target = -pid
                /\ \A q \in Pids : q # pid => procs'[q] = procs[q]
                /\ rc = IF procs[pid].st = "reaped" THEN -1 ELSE 0
                /\ procs[pid].st # "running" => procs' = procs

C27_SyntheticExitFirst ==
    \A k \in KillsFound :
        (procs[kills[k].pid].status.kind = "signal" /\ procs[kills[k].pid].exitEv # <<>>)
            => kills[k].ev # <<>>

SyntheticExitAtReturn ==
    /\ \A k \in KillsFound :
        kills[k].pc = "done" => kills[k].ev = <<KillExitEvent(kills[k].tid)>>
    /\ \A p \in Pids :
        procs[p].exitEv # <<>> => procs[p].wt = "done"

KillReturned(k) ==
    IF k \in KillsFound
    THEN kills[k].pc = "done" /\ kills[k].ev = <<KillExitEvent(kills[k].tid)>>
    ELSE FALSE

\* C27 amended: a kill that found its session emits its synthetic exit event
\* (code -1) once it has sent both signals, and does so whether or not the
\* waiter has emitted: however late the waiter runs, the kill comes to emit
\* its event and return; the waiter's exit event for the process may come
\* before or after the synthetic one.
C27_SyntheticExitNeverWaits ==
    /\ []SyntheticExitAtReturn
    /\ \A k \in 1..StreamKills : KillIssued(k) ~> KillReturned(k)

\* C27 witness: a kill has returned with its synthetic exit event while the
\* process its signal ended has not been waited for and has no exit event
\* of its waiter yet.
C27_Witness ==
    \E k \in KillsFound :
        /\ kills[k].pc = "done"
        /\ kills[k].ev = <<KillExitEvent(kills[k].tid)>>
        /\ procs[kills[k].pid].status.kind = "signal"
        /\ procs[kills[k].pid].wt = "wait"
        /\ procs[kills[k].pid].exitEv = <<>>

NotFoundRet == [success |-> FALSE, error |-> "Process not found", content |-> 0]

OneKillPerProcess ==
    /\ \A p \in Pids : Cardinality({ k \in KillsFound : kills[k].pid = p }) <= 1
    /\ \A j, k \in KillsFound :
        (j < k /\ kills[j].tid = kills[k].tid) => kills[j].pid < kills[k].pid
    /\ \A k \in 1..Len(kills) :
        IF kills[k].pid # NoPid
        THEN kills[k].pc = "done" =>
                /\ kills[k].res = OkRet(0)
                /\ Len(kills[k].sent) = 2
                /\ kills[k].ev = <<KillExitEvent(kills[k].tid)>>
        ELSE /\ kills[k].pc = "done"
             /\ kills[k].res = NotFoundRet
             /\ kills[k].sent = <<>> /\ kills[k].rc = <<>> /\ kills[k].ev = <<>>

LookupTakesEntry ==
    Len(kills') > Len(kills) =>
        LET k == Len(kills')
            tid == kills'[k].tid
        IN  /\ kills'[k].pid = terminal_pids[tid]
            /\ terminal_pids'[tid] = NoPid
            /\ \A t \in Tids : t # tid => terminal_pids'[t] = terminal_pids[t]

\* C28: the lookup of a kill takes the entry of its session id out of the
\* registry in one step, so of two kills for the same id with no start for
\* that id between their lookups only the first finds a pid: no process is
\* found by two kills; the kill that found the pid sends its two signals,
\* emits the one synthetic exit event and returns success; the other returns
\* "Process not found" and has sent no signal and emitted nothing.
C28_ConcurrentKillsOneFinds ==
    /\ []OneKillPerProcess
    /\ [][LookupTakesEntry]_vars

\* C28 witness: while the first kill of a session is still in its grace
\* period, a second kill for the same id, with no start in between, has
\* returned not-found.
C28_Witness ==
    \E j, k \in 1..Len(kills) :
        /\ j < k
        /\ kills[j].tid = kills[k].tid
        /\ kills[j].pid # NoPid /\ kills[j].pc = "sleep"
        /\ kills[k].res = NotFoundRet
        /\ \A q \in Pids : procs[q].tid = kills[j].tid => q <= kills[j].pid

----------------------------------------------------------------------------
(* Recent projects: db/projects.rs behind commands/projects.rs, and the     *)
(* in-memory list of lib.rs, driven by the same calls.                      *)

Paths == {"/a", "/b", "/c"}

\* "DELETE FROM recent_projects WHERE position >= 10", truncate(10)
RecentLimit == 10

Row(path, position) == [path |-> path, position |-> position]

\* SELECT path FROM recent_projects ORDER BY position ASC
RECURSIVE get_recent(_)
get_recent(rows) ==
    IF rows = {} THEN <<>>
    ELSE LET first == CHOOSE r \in rows : \A o \in rows : r.position <= o.position
         IN  <<first.path>> \o get_recent(rows \ {first})

\* db/projects.rs set_current_project: the four statements, in order.
DbSetCurrentProject(rows, project_path) ==
    LET deleted == { r \in rows : r.path # project_path }
        shifted == { Row(r.path, r.position + 1) : r \in deleted }
        inserted == shifted \cup { Row(project_path, 0) }
    IN  { r \in inserted : r.position < RecentLimit }

\* db/projects.rs remove: delete the path and renumber what is left.
DbRemove(rows, project_path) ==
    LET paths == get_recent({ r \in rows : r.path # project_path })
    IN  { Row(paths[i], i - 1) : i \in 1..Len(paths) }

Retain(list, project_path) ==
    LET keep(p) == p # project_path IN SelectSeq(list, keep)

Truncate(list, n) == IF Len(list) > n THEN SubSeq(list, 1, n) ELSE list

\* lib.rs set_current_project: retain, insert(0, ..), truncate(10)
MemSetCurrentProject(list, project_path) ==
    Truncate(<<project_path>> \o Retain(list, project_path), RecentLimit)

projFrame == <<terminal_pids, procs, kills, ret, lim, oauthVars, claudeVars, lockVars, conversations>>

set_current_project(project_path) ==
    /\ cwdSet' = TRUE
    /\ recent_projects' = DbSetCurrentProject(recent_projects, project_path)
    /\ store' = [store EXCEPT !.recent_projects = MemSetCurrentProject(@, project_path)]
    /\ UNCHANGED projFrame

remove_recent_project(project_path) ==
    /\ recent_projects' = DbRemove(recent_projects, project_path)
    /\ store' = [store EXCEPT !.recent_projects = Retain(@, project_path)]
    /\ UNCHANGED <<cwdSet, projFrame>>

get_recent_projects == get_recent(recent_projects)

NextProjects ==
    \/ \E project_path \in Paths : set_current_project(project_path)
    \/ \E project_path \in Paths : remove_recent_project(project_path)

InitProjects == TermOff /\ OAuthOff /\ ClaudeOff /\ LocksOff /\ DbOff

SpecProjects == InitProjects /\ [][NextProjects]_vars

IsPrefix(a, b) == Len(a) <= Len(b) /\ SubSeq(b, 1, Len(a)) = a

Distinct(list) == \A i, j \in 1..Len(list) : list[i] = list[j] => i = j

\* C29 as stated: after any sequence of set_current_project and
\* remove_recent_project calls, get_recent_projects is the list the
\* in-memory implementation holds: the distinct selected and not removed
\* paths, most recently selected first, cut to the 10 most recent.
C29_DbListEqualsMemoryList ==
    /\ Distinct(get_recent_projects)
    /\ get_recent_projects = store.recent_projects

\* What the code keeps of C29: the positions of the rows are distinct and
\* below 10, and get_recent_projects is a prefix of the in-memory list: the
\* same paths in the same order, possibly without the least recent ones.
C29_DbListPrefixOfMemoryList ==
    /\ \A r, o \in recent_projects :
        /\ r.position \in 0..(RecentLimit - 1)
        /\ (r.position = o.position \/ r.path = o.path) => r = o
    /\ Distinct(get_recent_projects)
    /\ IsPrefix(get_recent_projects, store.recent_projects)

----------------------------------------------------------------------------
(* Conversations: db/conversations.rs behind commands/conversations.rs.     *)
(* Both the project path and the conversation id of a command come from     *)
(* the caller.                                                              *)

MaxConvs == 3

Projects == {"p1", "p2"}

ConvNames == {"Chat", "Notes"}

\* Uuid::new_v4(): an id no row of the table has.
ConvIds == 1..MaxConvs

\* UPDATE conversations SET is_active = 0 WHERE project_path = ?1
ClearActive(rows, project_path) ==
    { IF c.project_path = project_path THEN [c EXCEPT !.is_active = 0] ELSE c : c \in rows }

\* UPDATE conversations SET is_active = 1 WHERE id = ?1
MarkActive(rows, conversation_id) ==
    { IF c.id = conversation_id THEN [c EXCEPT !.is_active = 1] ELSE c : c \in rows }

\* db/conversations.rs set_active: both updates in one transaction.
set_active(rows, project_path, conversation_id) ==
    MarkActive(ClearActive(rows, project_path), conversation_id)

\* db/conversations.rs get_active: query_row takes the first row of
\* SELECT id WHERE project_path = ?1 AND is_active = 1; with several such rows
\* any of them can be the first.
get_active(project_path) ==
    { c.id : c \in { r \in conversations : r.project_path = project_path /\ r.is_active = 1 } }

convFrame == <<termVars, oauthVars, claudeVars, lockVars, recent_projects, store>>

create_conversation(project_path, name, id) ==
    /\ \A c \in conversations : c.id # id
    /\ conversations' =
        set_active(conversations \cup
                     { [id |-> id, project_path |-> project_path, name |-> name, is_active |-> 0] },
                   project_path, id)
    /\ UNCHANGED convFrame

set_active_conversation(project_path, conversation_id) ==
    /\ conversations' = set_active(conversations, project_path, conversation_id)
    /\ UNCHANGED convFrame

delete_conversation(project_path, conversation_id) ==
    LET is_active == \E c \in conversations : c.id = conversation_id /\ c.is_active = 1
        deleted == { c \in conversations : c.id # conversation_id }
    IN  /\ conversations' = IF is_active THEN ClearActive(deleted, project_path) ELSE deleted
        /\ UNCHANGED convFrame

rename_conversation(conversation_id, name) ==
    /\ conversations' =
        { IF c.id = conversation_id THEN [c EXCEPT !.name = name] ELSE c : c \in conversations }
    /\ UNCHANGED convFrame

NextConvs ==
    \/ \E p \in Projects, n \in ConvNames, id \in ConvIds : create_conversation(p, n, id)
    \/ \E p \in Projects, id \in ConvIds : set_active_conversation(p, id)
    \/ \E p \in Projects, id \in ConvIds : delete_conversation(p, id)
    \/ \E id \in ConvIds, n \in ConvNames : rename_conversation(id, n)

InitConvs == TermOff /\ OAuthOff /\ ClaudeOff /\ LocksOff /\ DbOff

SpecConvs == InitConvs /\ [][NextConvs]_vars

\* C30 as stated: after any sequence of create, set_active, delete and rename
\* operations with any project path and conversation id, every project has
\* at most one conversation marked active, and get_active(project) returns
\* the id of a conversation that belongs to that project.
C30_OneActivePerProject ==
    \A p \in Projects :
        /\ Cardinality(get_active(p)) <= 1
        /\ \A id \in get_active(p) :
            \E c \in conversations : c.id = id /\ c.project_path = p

\* What the code keeps of C30: ids are unique, and whatever get_active
\* returns for a project is the id of a conversation of that project.
C30_ActiveBelongsToProject ==
    /\ \A c, d \in conversations : c.id = d.id => c = d
    /\ \A p \in Projects : \A id \in get_active(p) :
        \E c \in conversations : c.id = id /\ c.project_path = p

====
